---- MODULE Spec2Model ----
(***************************************************************************)
(* Model of the create-agent command line flow of azure-ai-agent-deploy:   *)
(* create-agent.py (main, create_agent_interactive, select_project,        *)
(* select_deployment, _check_model_quota, _deploy_model),                  *)
(* agents/azure_discovery.py (list_projects, list_deployments,             *)
(* select_from_list) and agents/agent_builder.py (AgentBuilder).           *)
(*                                                                         *)
(* Text is modelled as sequences of one-character strings so that strip(), *)
(* lower(), split(), int() and the substring tests are computed, not       *)
(* assumed.  External collaborators (the az CLI, the deployment script,    *)
(* the hosted-agent service, the terminal) answer nondeterministically.    *)
(***************************************************************************)
EXTENDS Integers, Sequences, FiniteSets, TLC

(* ------------------------------ bounds --------------------------------- *)
\* longest raw deployment listing returned by the CLI
MaxDeps == 2
\* longest raw project listing returned by the CLI
MaxProjects == 2
\* most name collisions answered by the service in one create_agent call
MaxCollisions == 2
\* most entries in a quota usage listing
MaxUsages == 2
\* most chunks (lines, or a key with its nested block) in a definition header
MaxHeaderLines == 2
\* most lines read by one conversation of test-agent
MaxReplInputs == 3
\* most agents the service lists
MaxAgents == 2
\* most external changes of the CLI login state during one run
MaxLoginChanges == 1

(* --------------------------- text primitives --------------------------- *)
\* str.lower() on one character
LowerChar(c) ==
    CASE c = "A" -> "a"
      [] c = "B" -> "b"
      [] c = "N" -> "n"
      [] c = "Q" -> "q"
      [] c = "Y" -> "y"
      [] c = "E" -> "e"
      [] c = "I" -> "i"
      [] c = "T" -> "t"
      [] c = "U" -> "u"
      [] c = "X" -> "x"
      [] OTHER -> c

\* str.lower()
Lower(s) == [i \in 1..Len(s) |-> LowerChar(s[i])]

\* the whitespace characters that occur in the texts of the model
Whitespace == {" ", "\n", "\t"}

RECURSIVE LStrip(_)
LStrip(s) == IF Len(s) > 0 /\ s[1] \in Whitespace THEN LStrip(Tail(s)) ELSE s

RECURSIVE RStrip(_)
RStrip(s) ==
    IF Len(s) > 0 /\ s[Len(s)] \in Whitespace THEN RStrip(SubSeq(s, 1, Len(s) - 1)) ELSE s

\* str.strip()
Strip(s) == RStrip(LStrip(s))

\* Python's  a in b  on strings
IsSubstr(a, b) == \E i \in 0..(Len(b) - Len(a)) : SubSeq(b, i + 1, i + Len(a)) = a

\* str.split(sep)
RECURSIVE Split(_, _)
Split(s, sep) ==
    IF \E i \in 1..Len(s) : s[i] = sep
    THEN LET i == CHOOSE k \in 1..Len(s) : s[k] = sep /\ \A j \in 1..(k - 1) : s[j] # sep
         IN  <<SubSeq(s, 1, i - 1)>> \o Split(SubSeq(s, i + 1, Len(s)), sep)
    ELSE <<s>>

\* str.rstrip("/")
RECURSIVE RStripSlash(_)
RStripSlash(s) == IF Len(s) > 0 /\ s[Len(s)] = "/" THEN RStripSlash(SubSeq(s, 1, Len(s) - 1)) ELSE s

DigitVal(c) ==
    CASE c = "0" -> 0 [] c = "1" -> 1 [] c = "2" -> 2 [] c = "3" -> 3 [] c = "4" -> 4
      [] c = "5" -> 5 [] c = "6" -> 6 [] c = "7" -> 7 [] c = "8" -> 8 [] c = "9" -> 9
      [] OTHER -> 0 - 1

\* the digits of a literal that int() accepts (after an optional sign)
IntBody(s) == IF Len(s) > 0 /\ s[1] \in {"-", "+"} THEN Tail(s) ELSE s

\* int(s) does not raise ValueError
IsInt(s) == Len(IntBody(s)) > 0 /\ \A i \in 1..Len(IntBody(s)) : DigitVal(IntBody(s)[i]) >= 0

RECURSIVE NatVal(_)
NatVal(s) == IF Len(s) = 0 THEN 0 ELSE NatVal(SubSeq(s, 1, Len(s) - 1)) * 10 + DigitVal(s[Len(s)])

\* int(s) for a literal accepted by IsInt
IntVal(s) == IF s[1] = "-" THEN 0 - NatVal(IntBody(s)) ELSE NatVal(IntBody(s))

\* elements of a sequence
Range(s) == {s[i] : i \in 1..Len(s)}

\* sequences of length at most n over S without repeated elements
RECURSIVE SeqsUpTo(_, _)
SeqsUpTo(S, n) ==
    IF n = 0 THEN {<<>>}
    ELSE LET shorter == SeqsUpTo(S, n - 1)
         IN  shorter \cup UNION {{Append(q, x) : x \in S \ Range(q)} : q \in {r \in shorter : Len(r) = n - 1}}

(* ------------------------- terminal input ------------------------------ *)
\* what input() can produce: a line, end of input, or an interrupt
Line(t) == [kind |-> "line", text |-> t]
EndOfInput == [kind |-> "eof", text |-> <<>>]
Interrupt == [kind |-> "interrupt", text |-> <<>>]

YesNoInputs ==
    {Line(<<"n">>), Line(<<" ", "N">>), Line(<<"y">>), Line(<<>>), Line(<<"n", "o">>),
     EndOfInput, Interrupt}

ChoiceInputs ==
    {Line(<<"1">>), Line(<<" ", "2">>), Line(<<"3">>), Line(<<"4">>), Line(<<"0">>),
     Line(<<"-", "1">>), Line(<<"x">>), Line(<<>>), EndOfInput, Interrupt}

NameInputs ==
    {Line(<<>>), Line(<<" ">>), Line(<<"q">>), Line(<<" ", "Q">>), Line(<<"b", "o", "t">>),
     Line(<<"n", "e", "w">>), Line(<<" ", "x", " ">>), EndOfInput, Interrupt}

\* input(...).strip().lower()
Answer(inp) == Lower(Strip(inp.text))

\* variant: only the whole word refuses
IsNo_WholeWord(response) == response = <<"n", "o">>

\* the test  response != 'n'  /  response == 'n'
IsNo(response) == response = <<"n">>

(* ------------------------- agent definition ---------------------------- *)
\* model: key of the definition header used in the runs (absent is <<>>)
Hint == <<"A", "b">>
NoHint == <<>>

\* a call returns a value or raises an exception
Return(v) == [kind |-> "return", value |-> v]
Raise(e) == [kind |-> "raise", value |-> e]

\* the pieces the definition documents of the runs are written from
OpeningMarker == <<"-", "-", "-", "\n">>
Openings == {OpeningMarker, <<"-", "-", "-", " ", "\n">>, <<" ", "-", "-", "-", "\n">>, <<>>}
ClosingMarker == <<"\n", "-", "-", "-", "\n">>
Closings == {ClosingMarker, <<"\n", "-", "-", "-">>, <<"\n", "-", "-", "-", " ", "\n", "\n">>, <<>>}
BodyNice == <<"B", "e", " ", "n", "i", "c", "e", ".">>
Bodies == {BodyNice, <<" ", "H", "i", " ", "\n">>, <<>>}
NameBot == <<"n", "a", "m", "e", ":", " ", "b", "o", "t">>
NameNull == <<"n", "a", "m", "e", ":">>
NameEmpty == <<"n", "a", "m", "e", ":", " ", "\"", "\"">>
NameUnclosed == <<"n", "a", "m", "e", ":", " ", "[", "x">>
DescriptionTest == <<"d", "e", "s", "c", "r", "i", "p", "t", "i", "o", "n", ":", " ", "t", "e", "s", "t">>
ModelAb == <<"m", "o", "d", "e", "l", ":", " ", "A", "b">>
MetaNested == <<"m", "e", "t", "a", ":", "\n", " ", " ", "k", ":", " ", "v">>
ListItem == <<"-", " ", "a">>
PlainText == <<"t", "e", "x", "t">>
HeaderChunks ==
    {NameBot, NameNull, NameEmpty, NameUnclosed, DescriptionTest, ModelAb, MetaNested,
     ListItem, PlainText}

\* "\n".join(chunks)
RECURSIVE JoinLines(_)
JoinLines(chunks) ==
    IF Len(chunks) = 0 THEN <<>>
    ELSE IF Len(chunks) = 1 THEN chunks[1]
    ELSE chunks[1] \o <<"\n">> \o JoinLines(Tail(chunks))

\* the text of a definition file
Document(opening, header, closing, body) == opening \o JoinLines(header) \o closing \o body

\* re.match(r'^---\s*\n(.*?)\n---\s*\n?(.*)', content, re.DOTALL):
\* positions where  ---\s*\n  can end
OpeningEnds(content) ==
    {i \in 4..Len(content) :
        content[i] = "\n" /\ \A k \in 4..(i - 1) : content[k] \in Whitespace}

\* \n---  starts at position j
ClosingAt(content, j) ==
    /\ j + 3 <= Len(content)
    /\ content[j] = "\n"
    /\ SubSeq(content, j + 1, j + 3) = <<"-", "-", "-">>

\* ends of  ---\s*\n  after which (.*?)\n---  can still match
FeasibleOpenings(content) ==
    {i \in OpeningEnds(content) : \E j \in (i + 1)..Len(content) : ClosingAt(content, j)}

\* match is not None
FrontmatterMatches(content) ==
    /\ Len(content) >= 3
    /\ SubSeq(content, 1, 3) = <<"-", "-", "-">>
    /\ FeasibleOpenings(content) # {}

\* \s* is greedy: the last feasible end;  (.*?) is lazy: the first closing
OpeningEnd(content) ==
    CHOOSE i \in FeasibleOpenings(content) : \A k \in FeasibleOpenings(content) : k <= i
ClosingStart(content) ==
    CHOOSE j \in (OpeningEnd(content) + 1)..Len(content) :
        /\ ClosingAt(content, j)
        /\ \A k \in (OpeningEnd(content) + 1)..(j - 1) : ~ClosingAt(content, k)

\* match.group(1)
Group1(content) == SubSeq(content, OpeningEnd(content) + 1, ClosingStart(content) - 1)

\* match.group(2): what follows  \n---\s*\n?
Group2(content) == LStrip(SubSeq(content, ClosingStart(content) + 4, Len(content)))

\* yaml.safe_load on the headers of the runs: values
YamlNull == [kind |-> "null", text |-> <<>>]
YamlStr(t) == [kind |-> "str", text |-> t]
YamlMap == [kind |-> "map", text |-> <<>>]
YamlList == [kind |-> "list", text |-> <<>>]
YamlError == [kind |-> "error", text |-> <<>>]

IsIndented(l) == Len(l) > 0 /\ l[1] = " "
IsItem(l) == Len(l) >= 2 /\ l[1] = "-" /\ l[2] = " "
ColonsOf(l) == {i \in 1..Len(l) : l[i] = ":" /\ (i = Len(l) \/ l[i + 1] = " ")}
IsEntry(l) == ~IsIndented(l) /\ ~IsItem(l) /\ ColonsOf(l) # {}
FirstColon(l) == CHOOSE i \in ColonsOf(l) : \A k \in ColonsOf(l) : i <= k
KeyOf(l) == SubSeq(l, 1, FirstColon(l) - 1)
ValueText(l) == Strip(SubSeq(l, FirstColon(l) + 1, Len(l)))
NotBlank(l) == Strip(l) # <<>>

\* a plain or quoted scalar; an unclosed flow sequence is a YAMLError
ScalarOf(v) ==
    IF v = <<>> THEN YamlNull
    ELSE IF v = <<"\"", "\"">> THEN YamlStr(<<>>)
    ELSE IF v[1] = "[" /\ v[Len(v)] # "]" THEN YamlError
    ELSE YamlStr(v)

\* how many lines at the front of lines are indented / are list items
RECURSIVE LeadingIndented(_)
LeadingIndented(lines) ==
    IF Len(lines) > 0 /\ IsIndented(lines[1]) THEN 1 + LeadingIndented(Tail(lines)) ELSE 0
RECURSIVE LeadingItems(_)
LeadingItems(lines) ==
    IF Len(lines) > 0 /\ IsItem(lines[1]) THEN 1 + LeadingItems(Tail(lines)) ELSE 0

YamlNode(t, k, v) == [type |-> t, key |-> k, value |-> v]

\* the top-level nodes of a block: entries (key: value, a key with a nested
\* block under it), list items, plain text; "error" where YAML has none
RECURSIVE YamlNodes(_)
YamlNodes(lines) ==
    IF Len(lines) = 0 THEN <<>>
    ELSE LET l == lines[1]
             rest == Tail(lines)
             n == LeadingIndented(rest)
             m == LeadingItems(rest)
         IN  IF IsIndented(l) THEN <<YamlNode("error", <<>>, YamlError)>>
             ELSE IF IsEntry(l) /\ ValueText(l) = <<>> /\ n > 0
             THEN <<YamlNode("entry", KeyOf(l),
                             IF \A i \in 1..n : IsEntry(Strip(rest[i]))
                             THEN YamlMap ELSE YamlError)>>
                      \o YamlNodes(SubSeq(rest, n + 1, Len(rest)))
             ELSE IF IsEntry(l) /\ ValueText(l) = <<>> /\ m > 0
             THEN <<YamlNode("entry", KeyOf(l), YamlList)>>
                      \o YamlNodes(SubSeq(rest, m + 1, Len(rest)))
             ELSE IF IsEntry(l)
             THEN <<YamlNode("entry", KeyOf(l), ScalarOf(ValueText(l)))>> \o YamlNodes(rest)
             ELSE IF IsItem(l) THEN <<YamlNode("item", <<>>, YamlNull)>> \o YamlNodes(rest)
             ELSE <<YamlNode("text", <<>>, YamlNull)>> \o YamlNodes(rest)

\* yaml.safe_load(frontmatter_str): None, a dict, a list, a str, or YAMLError
YamlLoad(text) ==
    LET nodes == YamlNodes(SelectSeq(Split(text, "\n"), NotBlank))
        types == {nodes[i].type : i \in 1..Len(nodes)}
    IN  IF Len(nodes) = 0 THEN [kind |-> "null", entries |-> <<>>]
        ELSE IF "error" \in types \/ Cardinality(types) > 1
                  \/ \E i \in 1..Len(nodes) : nodes[i].value = YamlError
        THEN [kind |-> "error", entries |-> <<>>]
        ELSE IF types = {"entry"} THEN [kind |-> "dict", entries |-> nodes]
        ELSE IF types = {"item"} THEN [kind |-> "list", entries |-> <<>>]
        ELSE [kind |-> "str", entries |-> <<>>]

\* frontmatter.get(key, default); of two entries with one key the last counts
FrontmatterGet(entries, key, default) ==
    LET at == {i \in 1..Len(entries) : entries[i].key = key}
    IN  IF at = {} THEN default
        ELSE entries[CHOOSE i \in at : \A k \in at : k <= i].value

\* variant: only a missing or null name is refused
Truthy_EmptyAllowed(v) == v.kind # "null"

\* bool(value)
Truthy(v) == v.kind \in {"map", "list"} \/ (v.kind = "str" /\ v.text # <<>>)

KeyName == <<"n", "a", "m", "e">>
KeyDescription == <<"d", "e", "s", "c", "r", "i", "p", "t", "i", "o", "n">>
KeyModel == <<"m", "o", "d", "e", "l">>

\* the four ValueError messages of parse_agent_yaml, and FileNotFoundError
InvalidFormat == "Invalid agent file format. Expected YAML frontmatter between --- markers."
InvalidYaml == "Invalid YAML in frontmatter"
NotADictionary == "Frontmatter must be a YAML dictionary"
MissingName == "Agent must have a 'name' field"
FileNotFound == "Agent file not found"

\* variant: the instructions are taken as matched, without strip()
ParseAgentYaml_NoStrip(exists, content) ==
    IF ~exists THEN Raise(FileNotFound)
    ELSE IF ~FrontmatterMatches(content) THEN Raise(InvalidFormat)
    ELSE LET frontmatter == YamlLoad(Group1(content))
             instructions == Group2(content)
             name == FrontmatterGet(frontmatter.entries, KeyName, YamlNull)
         IN  IF frontmatter.kind = "error" THEN Raise(InvalidYaml)
             ELSE IF frontmatter.kind # "dict" THEN Raise(NotADictionary)
             ELSE IF ~Truthy(name) THEN Raise(MissingName)
             ELSE Return([name |-> name,
                          description |-> FrontmatterGet(frontmatter.entries,
                                                         KeyDescription, YamlStr(<<>>)),
                          instructions |-> instructions,
                          model_hint |-> FrontmatterGet(frontmatter.entries,
                                                        KeyModel, YamlNull)])

\* parse_agent_yaml(file_path) for a file with this content
ParseAgentYaml(exists, content) ==
    IF ~exists THEN Raise(FileNotFound)
    ELSE IF ~FrontmatterMatches(content) THEN Raise(InvalidFormat)
    ELSE LET frontmatter == YamlLoad(Group1(content))
             instructions == Strip(Group2(content))
             name == FrontmatterGet(frontmatter.entries, KeyName, YamlNull)
         IN  IF frontmatter.kind = "error" THEN Raise(InvalidYaml)
             ELSE IF frontmatter.kind # "dict" THEN Raise(NotADictionary)
             ELSE IF ~Truthy(name) THEN Raise(MissingName)
             ELSE Return([name |-> name,
                          description |-> FrontmatterGet(frontmatter.entries,
                                                         KeyDescription, YamlStr(<<>>)),
                          instructions |-> instructions,
                          model_hint |-> FrontmatterGet(frontmatter.entries,
                                                        KeyModel, YamlNull)])

\* the definition files of the runs: how they were written, and their text
DefinitionFiles ==
    {[opening |-> o, header |-> h, closing |-> c, body |-> b,
      content |-> Document(o, h, c, b)] :
        o \in Openings, h \in SeqsUpTo(HeaderChunks, MaxHeaderLines),
        c \in Closings, b \in Bodies}

\* outcomes of parse_agent_yaml as create_agent_interactive uses them: an
\* error, or the name and the model hint of the AgentConfig (absent is <<>>)
ParseError == [ok |-> FALSE, name |-> <<>>, model_hint |-> NoHint]
AgentConfig(n, h) == [ok |-> TRUE, name |-> n, model_hint |-> h]
ConfigOf(parsed) ==
    IF parsed.kind = "raise" THEN ParseError
    ELSE AgentConfig(parsed.value.name.text, parsed.value.model_hint.text)
ParseOutcomes ==
    {ConfigOf(parsed) :
        parsed \in {r \in {ParseAgentYaml(TRUE, f.content) : f \in DefinitionFiles} :
                       r.kind = "return" =>
                           /\ r.value.name.kind = "str"
                           /\ r.value.model_hint.kind \in {"str", "null"}}}
NoConfig == ParseError

(* --------------------------- discovery --------------------------------- *)
\* rows printed by  az resource list --resource-type .../accounts/projects
RawProjectPool ==
    { [fullName |-> <<"r", "a", "/", "p">>, rg |-> <<"g">>, loc |-> "eu"],
      [fullName |-> <<"r", "/", "A">>, rg |-> <<"g">>, loc |-> "us"],
      [fullName |-> <<"r", "/", "p">>, rg |-> <<"g">>, loc |-> "eu"],
      [fullName |-> <<"r", "c">>, rg |-> <<"a">>, loc |-> "eu"] }
RawProjectListings == SeqsUpTo(RawProjectPool, MaxProjects)

AzureProject(n, r, g, l) == [name |-> n, resource_name |-> r, resource_group |-> g, location |-> l]
NoProject == AzureProject(<<>>, <<>>, <<>>, "")

\* the filter test of list_projects: TRUE when the row is kept
ProjectPassesFilter(filter, resource_name, project_name, rg) ==
    \/ Len(filter) = 0
    \/ ~ ( /\ ~IsSubstr(Lower(filter), Lower(resource_name))
           /\ ~IsSubstr(Lower(filter), Lower(project_name))
           /\ ~IsSubstr(Lower(filter), Lower(rg)) )

\* AzureDiscovery.list_projects on the parsed CLI output
RECURSIVE ListProjects(_, _)
ListProjects(data, filter) ==
    IF Len(data) = 0 THEN <<>>
    ELSE LET p == Head(data)
             parts == Split(p.fullName, "/")
             rest == ListProjects(Tail(data), filter)
         IN  IF Len(parts) # 2 THEN rest
             ELSE IF ~ProjectPassesFilter(filter, parts[1], parts[2], p.rg) THEN rest
             ELSE <<AzureProject(parts[2], parts[1], p.rg, p.loc)>> \o rest

\* _run_az(args, check): the CompletedProcess, or RuntimeError
RunAz(out, check) ==
    IF check /\ out.rc # 0 THEN Raise("az command failed") ELSE Return(out)

\* results of the CLI call made by list_projects
AzProjectOutcomes ==
    {[rc |-> 1, data |-> <<>>]} \cup {[rc |-> 0, data |-> l] : l \in RawProjectListings}

\* AzureDiscovery.list_projects(filter_term)
ListProjectsCall(out, filter) ==
    LET result == RunAz(out, TRUE)
    IN  IF result.kind = "raise" THEN result
        ELSE Return(ListProjects(result.value.data, filter))

\* rows printed by  az resource list --resource-type .../accounts
RawResourcePool ==
    { [name |-> <<"r", "a">>, rg |-> <<"g">>, loc |-> "eu"],
      [name |-> <<"r">>, rg |-> <<"A">>, loc |-> "us"] }
AzResourceOutcomes ==
    {[rc |-> 1, data |-> <<>>]}
        \cup {[rc |-> 0, data |-> l] : l \in SeqsUpTo(RawResourcePool, MaxProjects)}

AzureResource(n, g, l) == [name |-> n, resource_group |-> g, location |-> l]

\* the loop of list_resources on the parsed CLI output
RECURSIVE ListResources(_, _)
ListResources(data, filter) ==
    IF Len(data) = 0 THEN <<>>
    ELSE LET r == Head(data)
             rest == ListResources(Tail(data), filter)
         IN  IF /\ Len(filter) > 0
                /\ ~IsSubstr(Lower(filter), Lower(r.name))
                /\ ~IsSubstr(Lower(filter), Lower(r.rg))
             THEN rest
             ELSE <<AzureResource(r.name, r.rg, r.loc)>> \o rest

\* AzureDiscovery.list_resources(filter_term)
ListResourcesCall(out, filter) ==
    LET result == RunAz(out, TRUE)
    IN  IF result.kind = "raise" THEN result
        ELSE Return(ListResources(result.value.data, filter))

\* AzureProject.endpoint
EndpointOf(p) ==
    <<"h", "t", "t", "p", "s", ":", "/", "/">> \o p.resource_name \o <<".", "s", "e", "r", "v", "i", "c", "e", "s", ".", "a", "i", ".", "a", "z", "u", "r", "e", ".", "c", "o", "m", "/", "a", "p", "i", "/", "p", "r", "o", "j", "e", "c", "t", "s", "/">> \o p.name

\* rows printed by  az cognitiveservices account deployment list
RawDeploymentPool ==
    { [name |-> <<"a", "b">>, hasModel |-> TRUE, model |-> <<"x">>, version |-> "1"],
      [name |-> <<"m">>, hasModel |-> TRUE, model |-> <<"A", "B">>, version |-> "1"],
      [name |-> <<"a", "b", "c">>, hasModel |-> FALSE, model |-> <<>>, version |-> "1"],
      [name |-> <<"z">>, hasModel |-> TRUE, model |-> <<"x", "A", "b">>, version |-> "1"],
      [name |-> <<"k">>, hasModel |-> TRUE, model |-> <<"x">>, version |-> "2"] }

\* a listing never repeats a deployment name
RawDeploymentListings == SeqsUpTo(RawDeploymentPool, MaxDeps)

\* results of the CLI call made by list_deployments
AzDeploymentOutcomes ==
    {[rc |-> 1, data |-> <<>>]} \cup {[rc |-> 0, data |-> l] : l \in RawDeploymentListings}

ModelDeployment(raw) ==
    [deployment_name |-> raw.name,
     model_name |-> IF raw.hasModel THEN raw.model ELSE <<>>,
     version |-> raw.version]
NoDeployment == [deployment_name |-> <<>>, model_name |-> <<>>, version |-> ""]

\* AzureDiscovery.list_deployments
ListDeployments(out) ==
    IF out.rc # 0 THEN <<>>
    ELSE [i \in 1..Len(out.data) |-> ModelDeployment(out.data[i])]

\* variant: list_deployments runs the CLI with check=True like the others
ListDeploymentsCall_Checked(out) ==
    LET result == RunAz(out, TRUE)
    IN  IF result.kind = "raise" THEN result ELSE Return(ListDeployments(result.value))

\* AzureDiscovery.list_deployments(resource_name, resource_group)
ListDeploymentsCall(out) ==
    LET result == RunAz(out, FALSE)
    IN  IF result.kind = "raise" THEN result ELSE Return(ListDeployments(result.value))

(* --------------------------- select_from_list -------------------------- *)
\* select_from_list cancelled (Python None)
None == 0 - 1
\* EOFError leaving select_from_list
Eof == 0 - 2

\* variant: the only option is not auto-selected
AsksUser_Always(items) == Len(items) > 0

\* select_from_list reaches its input() call
AsksUser(items) == Len(items) > 1

\* variant: the number typed is used as the index, without the 1-based shift
SelectFromList_NoShift(items, inp) ==
    IF Len(items) = 0 THEN None
    ELSE IF ~AsksUser(items) THEN 0
    ELSE IF inp.kind = "eof" THEN Eof
    ELSE IF inp.kind = "interrupt" THEN None
    ELSE LET choice == Strip(inp.text)
         IN  IF ~IsInt(choice) THEN None
             ELSE LET idx == IntVal(choice)
                  IN  IF 0 <= idx /\ idx < Len(items) THEN idx ELSE None

\* select_from_list(items, ...) when input() produces inp
SelectFromList(items, inp) ==
    IF Len(items) = 0 THEN None
    ELSE IF ~AsksUser(items) THEN 0
    ELSE IF inp.kind = "eof" THEN Eof
    ELSE IF inp.kind = "interrupt" THEN None
    ELSE LET choice == Strip(inp.text)
         IN  IF ~IsInt(choice) THEN None
             ELSE LET idx == IntVal(choice) - 1
                  IN  IF 0 <= idx /\ idx < Len(items) THEN idx ELSE None

(* ------------------------------ quota ---------------------------------- *)
Standard == <<"s", "t", "a", "n", "d", "a", "r", "d">>
GlobalStandard == <<"g", "l", "o", "b", "a", "l", "s", "t", "a", "n", "d", "a", "r", "d">>
ExcludedQuotaTypes ==
    { <<"f", "i", "n", "e", "t", "u", "n", "e">>,
      <<"b", "a", "t", "c", "h">>,
      <<"r", "e", "a", "l", "t", "i", "m", "e">>,
      <<"a", "u", "d", "i", "o">>,
      <<"t", "r", "a", "n", "s", "c", "r", "i", "b", "e">>,
      <<"t", "t", "s">>,
      <<"d", "i", "a", "r", "i", "z", "e">> }

Usage(n, c, l) == [name |-> n, currentValue |-> c, limit |-> l]
UsagePool ==
    { Usage(Standard \o <<".", "a", "b">>, 1, 3),
      Usage(Standard \o <<".", "a", "b">>, 3, 3),
      Usage(GlobalStandard \o <<".", "A", "B">>, 1, 2),
      Usage(GlobalStandard \o <<".", "a", "b">>, 5, 3),
      Usage(GlobalStandard \o <<".", "a", "b", "-">> \o <<"b", "a", "t", "c", "h">>, 0, 3),
      Usage(Standard \o <<".", "x">>, 0, 3),
      Usage(<<"p", "t", "u", ".", "a", "b">>, 0, 3) }

\* results of  az cognitiveservices usage list
QuotaOutcomes ==
    {[kind |-> "nonzero", usages |-> <<>>], [kind |-> "bad_json", usages |-> <<>>]}
        \cup {[kind |-> "ok", usages |-> u] : u \in SeqsUpTo(UsagePool, MaxUsages)}

\* variant: the excluded categories are not skipped
RelevantUsage_NoExclusions(u, model_name) ==
    LET name == Lower(u.name)
    IN  /\ IsSubstr(Lower(model_name), name)
        /\ (IsSubstr(Standard, name) \/ IsSubstr(GlobalStandard, name))

\* the entry counts towards the quota of model_name
RelevantUsage(u, model_name) ==
    LET name == Lower(u.name)
    IN  /\ ~ \E x \in ExcludedQuotaTypes : IsSubstr(x, name)
        /\ IsSubstr(Lower(model_name), name)
        /\ (IsSubstr(Standard, name) \/ IsSubstr(GlobalStandard, name))

\* variant: a usage query that exits non-zero counts as "no quota"
CheckModelQuota_FailClosed(out, model_name) ==
    IF out.kind = "nonzero" THEN FALSE
    ELSE IF out.kind = "bad_json" THEN TRUE
    ELSE \E i \in 1..Len(out.usages) :
            /\ RelevantUsage(out.usages[i], model_name)
            /\ out.usages[i].limit - out.usages[i].currentValue > 0

\* _check_model_quota: has_quota
CheckModelQuota(out, model_name) ==
    IF out.kind = "nonzero" THEN TRUE
    ELSE IF out.kind = "bad_json" THEN TRUE
    ELSE \E i \in 1..Len(out.usages) :
            /\ RelevantUsage(out.usages[i], model_name)
            /\ out.usages[i].limit - out.usages[i].currentValue > 0

\* _check_model_quota: the message returned with has_quota; "available" stands
\* for "<sku>: <n>K TPM available", whose figures are only printed
QuotaMessage(out, model_name) ==
    IF out.kind = "nonzero" THEN "(quota check unavailable)"
    ELSE IF out.kind = "bad_json" THEN "(quota check error)"
    ELSE IF CheckModelQuota(out, model_name) THEN "available"
    ELSE "No Standard/GlobalStandard quota available"

\* outcomes of _deploy_model: script missing, exit 0, exit non-zero, exception
DeployOutcomes == {"missing", "ok", "nonzero", "exception"}

\* _deploy_model returns True
DeploySucceeded(o) == o = "ok"

(* ----------------------- hint matching --------------------------------- *)
\* variant: the exact pass looks at the deployment name only
ExactMatch_NameOnly(hint, d) == Lower(hint) = Lower(d.deployment_name)

\* first pass of select_deployment: exact, case-insensitive
ExactMatch(hint, d) ==
    Lower(hint) = Lower(d.deployment_name) \/ Lower(hint) = Lower(d.model_name)

\* second pass of select_deployment: substring, case-insensitive
PartialMatch(hint, d) ==
    IsSubstr(Lower(hint), Lower(d.deployment_name)) \/ IsSubstr(Lower(hint), Lower(d.model_name))

\* the smallest position in S, 0 when there is none (the loop returns at the
\* first deployment that passes its test)
FirstIndex(S) == IF S = {} THEN 0 ELSE CHOOSE i \in S : \A j \in S : i <= j

\* for d in deployments: if exact: return d
FirstExact(hint, deps) == FirstIndex({i \in 1..Len(deps) : ExactMatch(hint, deps[i])})

\* partial_matches
RECURSIVE PartialMatches(_, _)
PartialMatches(hint, deps) ==
    IF Len(deps) = 0 THEN <<>>
    ELSE (IF PartialMatch(hint, Head(deps)) THEN <<Head(deps)>> ELSE <<>>)
            \o PartialMatches(hint, Tail(deps))

\* the search made after a successful deploy in each branch of select_deployment
FirstNewlyDeployed(br, hint, deps) ==
    IF br = "none"
    THEN FirstIndex({i \in 1..Len(deps) :
                        ExactMatch(hint, deps[i]) \/ PartialMatch(hint, deps[i])})
    ELSE FirstExact(hint, deps)

(* ------------------------- hosted-agent service ------------------------ *)
\* Python None where an identifier is expected
NoId == "None"

\* what client.agents.create can do: return an agent object (whose id and
\* name keys may be missing), raise ResourceExistsError, or raise another error
CreateOutcomes(n) ==
    {[kind |-> "exists", hasId |-> FALSE, id |-> NoId, hasName |-> FALSE, name |-> <<>>],
     [kind |-> "error", hasId |-> FALSE, id |-> NoId, hasName |-> FALSE, name |-> <<>>]}
        \cup {[kind |-> "ok", hasId |-> i, id |-> IF i THEN "agent-1" ELSE NoId,
               hasName |-> h, name |-> IF h THEN n ELSE <<>>] : i \in BOOLEAN, h \in BOOLEAN}
NoAgent == [kind |-> "none", hasId |-> FALSE, id |-> NoId, hasName |-> FALSE, name |-> <<>>]

\* what client.agents.get can do: raise, return None or an empty object,
\* or return an object whose id is missing, empty or set
VerifyOutcomes ==
    {[kind |-> "raise", truthy |-> FALSE, id |-> NoId],
     [kind |-> "value", truthy |-> FALSE, id |-> NoId]}
        \cup {[kind |-> "value", truthy |-> TRUE, id |-> i] : i \in {NoId, "", "agent-1"}}

\* variant: the id of the read-back is not looked at
VerificationFails_NoIdCheck(v) == v.kind = "raise" \/ ~v.truthy

\* not verified or not verified.get('id'), or the read-back raised
VerificationFails(v) ==
    v.kind = "raise" \/ ~v.truthy \/ v.id = NoId \/ v.id = ""

\* variant: only 'q' cancels, an empty name is tried
IsCancel_OnlyQ(new_name) == Lower(new_name) = <<"q">>

\* new_name.lower() == 'q' or not new_name
IsCancel(new_name) == Lower(new_name) = <<"q">> \/ Len(new_name) = 0

\* variant: the retry keeps the name that collided
RetryName_Stale(old_name, new_name) == old_name

\* the name used by the next attempt after a collision
RetryName(old_name, new_name) == new_name

\* AgentBuilder._get_client with self._client = sc after n handles were
\* constructed: the handle returned (and kept), and the handles constructed
GetClient(sc, n) ==
    IF sc = 0 THEN [handle |-> n + 1, count |-> n + 1] ELSE [handle |-> sc, count |-> n]

\* variant: the handle that saw the collision is kept
ForgetClient_Keeps(sc) == sc

\* self._client = None, before the retry
ForgetClient(sc) == 0

\* variant: the loop gives up after two attempts
LoopCondition_MaxTwo(attempts) == attempts < 2

\* while True: no count of the attempts made is kept or tested
LoopCondition(attempts) == TRUE

\* agent.get('id')
AgentId(a) == IF a.hasId THEN a.id ELSE NoId

\* agent.get('name', current_name)
AgentName(a, current) == IF a.hasName THEN a.name ELSE current

\* variant: the model of the deployment is passed, not the deployment's name
ModelArgument_ModelName(d) == d.model_name

\* create_agent(model=deployment.deployment_name, ...)
ModelArgument(d) == d.deployment_name

CreatedAgent(a, current, m, e, g, p) ==
    [agent_id |-> AgentId(a), name |-> AgentName(a, current), model |-> m,
     endpoint |-> e, resource_group |-> g, project_name |-> p]
NoResult ==
    [agent_id |-> NoId, name |-> <<>>, model |-> <<>>, endpoint |-> <<>>,
     resource_group |-> <<>>, project_name |-> <<>>]

\* the fields written to the .agent.txt sidecar
SidecarText(cfg, r) ==
    [written |-> TRUE, agent_created |-> cfg.name, agent_id |-> r.agent_id,
     endpoint |-> r.endpoint, model |-> r.model, sample_name |-> r.name]
NoSidecar ==
    [written |-> FALSE, agent_created |-> <<>>, agent_id |-> NoId,
     endpoint |-> <<>>, model |-> <<>>, sample_name |-> <<>>]

\* agent objects the service lists (the key model may be missing)
AgentPool ==
    { [id |-> "agent-1", name |-> <<"b", "o", "t">>, hasModel |-> TRUE, model |-> <<"A", "b">>],
      [id |-> "agent-2", name |-> <<"n", "e", "w">>, hasModel |-> FALSE, model |-> <<>>] }

\* what client.agents.list() can do: raise, raise while the result is read,
\* or give the agents
ListAgentsOutcomes ==
    {[kind |-> "raise", agents |-> <<>>]}
        \cup {[kind |-> k, agents |-> l] :
                k \in {"ok", "raise_reading"}, l \in SeqsUpTo(AgentPool, MaxAgents)}

\* AgentBuilder.list_agents()
ListAgents(o) ==
    IF o.kind # "ok" THEN Return(<<>>)
    ELSE Return([i \in 1..Len(o.agents) |->
                    [id |-> o.agents[i].id, name |-> o.agents[i].name,
                     model |-> IF o.agents[i].hasModel
                               THEN YamlStr(o.agents[i].model) ELSE YamlNull]])

\* what client.agents.delete(agent_id) can do
DeleteOutcomes == {"ok", "raise"}

\* variant: the error of the delete call is passed on
DeleteAgent_Raises(o) == IF o = "ok" THEN Return(TRUE) ELSE Raise("delete failed")

\* AgentBuilder.delete_agent(agent_id)
DeleteAgent(o) == Return(o = "ok")

\* what the chat of AgentBuilder.test_agent can do: get_openai_client or
\* responses.create raise, or a response with output_text, with a non-empty
\* output list, with another non-empty output, or with neither
ChatCallOutcomes ==
    {"client_raises", "create_raises", "output_text", "output_list", "output_other",
     "no_output"}

\* variant: a failed chat call leaves test_agent as an exception
BuilderTestAgent_Raises(o) ==
    IF o \in {"client_raises", "create_raises"} THEN Raise(o)
    ELSE Return(<<"response.output_text">>)

\* AgentBuilder.test_agent(agent_name, message): the text, or f"Error: {e}"
BuilderTestAgent(o) ==
    IF o \in {"client_raises", "create_raises"} THEN Return(<<"Error: ", o>>)
    ELSE IF o = "output_text" THEN Return(<<"response.output_text">>)
    ELSE IF o = "output_list" THEN Return(<<"response.output[0]">>)
    ELSE IF o = "output_other" THEN Return(<<"str(response.output)">>)
    ELSE Return(<<"str(response)">>)

\* str(agent_id) as the f-string of the sidecar prints it
IdText(id) ==
    CASE id = "agent-1" -> <<"a", "g", "e", "n", "t", "-", "1">>
      [] id = NoId -> <<"N", "o", "n", "e">>
      [] OTHER -> <<>>

\* the lines of the .agent.txt file that carry a value, in the order written
\* (the other lines of the code sample are fixed text)
SidecarLines(sc) ==
    << <<"A", "g", "e", "n", "t", " ", "C", "r", "e", "a", "t", "e", "d", ":", " ">> \o sc.agent_created,
       <<"A", "g", "e", "n", "t", " ", "I", "D", ":", " ">> \o IdText(sc.agent_id),
       <<"E", "n", "d", "p", "o", "i", "n", "t", ":", " ">> \o sc.endpoint,
       <<"M", "o", "d", "e", "l", ":", " ">> \o sc.model,
       <<>>,
       <<"T", "o", " ", "u", "s", "e", " ", "t", "h", "i", "s", " ", "a", "g", "e", "n", "t", " ", "i", "n", " ", "P", "y", "t", "h", "o", "n", ":">>,
       <<" ", " ", " ", " ", " ", " ", " ", " ", "e", "n", "d", "p", "o", "i", "n", "t", "=", "\"">> \o sc.endpoint \o <<"\"", ",">>,
       <<" ", " ", " ", " ", " ", " ", " ", " ", "e", "x", "t", "r", "a", "_", "b", "o", "d", "y", "=", "{", "\"", "a", "g", "e", "n", "t", "\"", ":", " ", "{", "\"", "n", "a", "m", "e", "\"", ":", " ", "\"">> \o sc.sample_name
           \o <<"\"", ",", " ", "\"", "t", "y", "p", "e", "\"", ":", " ", "\"", "a", "g", "e", "n", "t", "_", "r", "e", "f", "e", "r", "e", "n", "c", "e", "\"", "}", "}", ",">> >>

\* str.startswith(prefix)
StartsWith(l, prefix) == Len(l) >= Len(prefix) /\ SubSeq(l, 1, Len(prefix)) = prefix

\* line.split(":", 1)[1]
AfterFirstColon(l) ==
    LET i == CHOOSE k \in 1..Len(l) : l[k] = ":" /\ \A j \in 1..(k - 1) : l[j] # ":"
    IN  SubSeq(l, i + 1, Len(l))

AgentIdPrefix == <<"A", "g", "e", "n", "t", " ", "I", "D", ":">>
EndpointPrefix == <<"E", "n", "d", "p", "o", "i", "n", "t", ":">>

\* the loop of parse_agent_file: the value of the last line with the prefix,
\* None (here <<>>, which  not agent_name  treats alike) without such a line
RECURSIVE LastValueOf(_, _)
LastValueOf(lines, prefix) ==
    IF Len(lines) = 0 THEN <<>>
    ELSE LET l == Strip(lines[Len(lines)])
         IN  IF StartsWith(l, prefix) THEN Strip(AfterFirstColon(l))
             ELSE LastValueOf(SubSeq(lines, 1, Len(lines) - 1), prefix)

\* parse_agent_file(file_path) of test-agent.py for a file with these lines
ParseAgentFile(lines) ==
    LET agent_name == LastValueOf(lines, AgentIdPrefix)
        endpoint == LastValueOf(lines, EndpointPrefix)
    IN  IF Len(agent_name) = 0 \/ Len(endpoint) = 0
        THEN Raise("Could not parse agent name and endpoint")
        ELSE Return(<<agent_name, endpoint>>)

(* ------------------------------ state ---------------------------------- *)
VARIABLES
    pc,               \* position of the process
    status,           \* exit status once pc = "exit"
    exitAt,           \* the place where the process ended
    filter_term,      \* --filter
    test,             \* --test
    loggedIn,         \* whether  az account show  succeeds right now
    loginChanges,     \* how often the login state changed externally
    config,           \* the parsed AgentConfig
    projects,         \* select_project: projects
    project,          \* the selected AzureProject
    deployments,      \* select_deployment: deployments
    partial_matches,  \* select_deployment: partial_matches
    branch,           \* select_deployment: the branch that checks quota
    has_quota,        \* select_deployment: has_quota
    quota_msg,        \* select_deployment: quota_msg
    response,         \* the last yes/no answer, stripped and lowered
    deployment,       \* the ModelDeployment select_deployment returns
    self_client,      \* AgentBuilder._client (0 is None)
    client,           \* create_agent: client
    clientCount,      \* AIProjectClient handles constructed
    current_name,     \* create_agent: current_name
    new_name,         \* create_agent: new_name, the last name entered
    agent,            \* create_agent: agent
    raised,           \* the exception leaving create_agent
    result,           \* the CreatedAgent
    sidecar,          \* the .agent.txt file
    testResponse,     \* the answer of the optional test message
    io,               \* prompts shown and external calls made, in order, under
                      \* the section header (print_header) printed last
    createLog,        \* the create calls: name, client handle, outcome
    getLog,           \* the read-back calls: name, client handle, outcome
    typed,            \* what the last input() of a numbered choice produced
    call,             \* a library operation invoked on its own, with its inputs
    ret               \* what that operation returned or raised

ctlVars == <<pc, status, exitAt>>
argVars == <<filter_term, test>>
envVars == <<loggedIn, loginChanges>>
projVars == <<projects, project>>
sdVars == <<deployments, partial_matches, branch, has_quota, quota_msg, response, deployment>>
baVars == <<self_client, client, clientCount, current_name, new_name, agent, raised, result>>
outVars == <<sidecar, testResponse>>
logVars == <<createLog, getLog>>
fnVars == <<call, ret>>
vars == <<ctlVars, fnVars, typed, argVars, envVars, config, projVars, sdVars, baVars,
          outVars, io, logVars>>

\* the process has not exited
Running == 0 - 1

\* no input() of a numbered choice has been reached
NoInput == [kind |-> "none", text |-> <<>>]

\* no operation is invoked on its own; an invoked operation has not returned
NoCall == [fn |-> "none"]
NoReturn == [kind |-> "pending"]

\* nothing has run yet: the locals, the builder and the files of the process
Fresh ==
    /\ status = Running
    /\ exitAt = "running"
    /\ loginChanges = 0
    /\ config = NoConfig
    /\ projects = <<>>
    /\ project = NoProject
    /\ deployments = <<>>
    /\ partial_matches = <<>>
    /\ branch = "start"
    /\ has_quota = FALSE
    /\ quota_msg = "none"
    /\ response = <<>>
    /\ deployment = NoDeployment
    /\ self_client = 0
    /\ client = 0
    /\ clientCount = 0
    /\ current_name = <<>>
    /\ new_name = <<>>
    /\ agent = NoAgent
    /\ raised = "none"
    /\ result = NoResult
    /\ sidecar = NoSidecar
    /\ testResponse = <<>>
    /\ io = <<>>
    /\ createLog = <<>>
    /\ getLog = <<>>
    /\ typed = NoInput

Init ==
    /\ pc = "main"
    /\ filter_term \in {<<>>, <<"A">>}
    /\ test \in BOOLEAN
    /\ loggedIn \in BOOLEAN
    /\ Fresh
    /\ call = NoCall
    /\ ret = NoReturn

\* sys.exit(code), or the interpreter ending the process
Exit(code, at) == pc' = "exit" /\ status' = code /\ exitAt' = at

\* control moves on inside the process
Goto(l) == pc' = l /\ UNCHANGED <<status, exitAt>>

\* an input() call that raised: EOFError is uncaught (traceback, status 1),
\* KeyboardInterrupt ends the interpreter with status 130
InputAborts(inp) ==
    IF inp.kind = "eof" THEN Exit(1, "uncaught_error") ELSE Exit(130, "interrupt")

(* --------------------- main / create_agent_interactive ----------------- *)
\* main: the definition file must exist
Main ==
    /\ pc = "main"
    /\ \E exists \in BOOLEAN :
          IF exists THEN Goto("check_cli") ELSE Exit(1, "file_missing")
    /\ UNCHANGED <<fnVars, typed, argVars, envVars, config, projVars, sdVars, baVars, outVars, io, logVars>>

\* variant: the prerequisites check does not look at the login state
CheckAzureCli_NoLoginCheck ==
    /\ pc = "check_cli"
    /\ \E installed \in BOOLEAN :
          IF ~installed THEN Exit(1, "cli_missing") ELSE Goto("parse")
    /\ UNCHANGED <<fnVars, typed, argVars, envVars, config, projVars, sdVars, baVars, outVars, io, logVars>>

\* check_azure_cli: az installed, az account show succeeds
CheckAzureCli ==
    /\ pc = "check_cli"
    /\ \E installed \in BOOLEAN :
          IF ~installed THEN Exit(1, "cli_missing")
          ELSE IF ~loggedIn THEN Exit(1, "not_logged_in")
          ELSE Goto("parse")
    /\ UNCHANGED <<fnVars, typed, argVars, envVars, config, projVars, sdVars, baVars, outVars, io, logVars>>

\* parse_agent_yaml inside try/except
ParseDefinition ==
    /\ pc = "parse"
    /\ \E r \in ParseOutcomes :
          IF r.ok THEN config' = r /\ Goto("check_roles")
          ELSE config' = config /\ Exit(1, "parse_error")
    /\ UNCHANGED <<fnVars, typed, argVars, envVars, projVars, sdVars, baVars, outVars, io, logVars>>

\* check_azure_roles: json.loads of an empty account output is uncaught
CheckAzureRoles ==
    /\ pc = "check_roles"
    /\ IF ~loggedIn THEN Exit(1, "uncaught_error")
       ELSE \E r \in {"service_principal", "sufficient", "insufficient"} :
               IF r = "insufficient" THEN Exit(1, "roles_missing") ELSE Goto("discovery_init")
    /\ UNCHANGED <<fnVars, typed, argVars, envVars, config, projVars, sdVars, baVars, outVars, io, logVars>>

\* AzureDiscovery(): _check_cli raises RuntimeError when az is unusable
DiscoveryInit ==
    /\ pc = "discovery_init"
    /\ \E ok \in BOOLEAN :
          IF ok THEN Goto("check_login") ELSE Exit(1, "cli_missing")
    /\ UNCHANGED <<fnVars, typed, argVars, envVars, config, projVars, sdVars, baVars, outVars, io, logVars>>

\* discovery.is_logged_in()
CheckLogin ==
    /\ pc = "check_login"
    /\ IF loggedIn THEN Goto("get_subscription") ELSE Goto("login_prompt")
    /\ UNCHANGED <<fnVars, typed, argVars, envVars, config, projVars, sdVars, baVars, outVars, io, logVars>>

\* "Login now using device code? (Y/n)"
LoginPrompt ==
    /\ pc = "login_prompt"
    /\ \E inp \in YesNoInputs :
          /\ io' = Append(io, "input:login")
          /\ IF inp.kind # "line" THEN response' = response /\ InputAborts(inp)
             ELSE /\ response' = Answer(inp)
                  /\ IF ~IsNo(response') THEN Goto("login_device_code")
                     ELSE Exit(1, "login_declined")
    /\ UNCHANGED <<fnVars, typed, argVars, envVars, config, projVars, baVars, outVars, logVars>>
    /\ UNCHANGED <<deployments, partial_matches, branch, has_quota, quota_msg, deployment>>

\* discovery.login_device_code()
LoginDeviceCode ==
    /\ pc = "login_device_code"
    /\ io' = Append(io, "login")
    /\ \E ok \in BOOLEAN :
          IF ok THEN loggedIn' = TRUE /\ Goto("get_subscription")
          ELSE loggedIn' = loggedIn /\ Exit(1, "login_failed")
    /\ UNCHANGED <<fnVars, typed, argVars, loginChanges, config, projVars, sdVars, baVars, outVars, logVars>>

\* discovery.get_subscription(): _run_az raises when az fails
GetSubscription ==
    /\ pc = "get_subscription"
    /\ IF loggedIn THEN Goto("select_project") ELSE Exit(1, "uncaught_error")
    /\ UNCHANGED <<fnVars, typed, argVars, envVars, config, projVars, sdVars, baVars, outVars, io, logVars>>

\* the login state changes outside the process (token expiry, az login
\* in another terminal) between two calls of the CLI
EnvLoginChange ==
    /\ pc \in {"parse", "check_roles", "discovery_init", "check_login", "get_subscription"}
    /\ loginChanges < MaxLoginChanges
    /\ loggedIn' = ~loggedIn
    /\ loginChanges' = loginChanges + 1
    /\ UNCHANGED <<ctlVars, fnVars, typed, argVars, config, projVars, sdVars, baVars, outVars, io, logVars>>

(* ----------------------------- select_project -------------------------- *)
\* where control goes next: on inside the process, or out of it
Stay(l) == [pc |-> l, code |-> Running, at |-> "running"]
Quit(code, at) == [pc |-> "exit", code |-> code, at |-> at]
Transfer(t) == IF t.pc = "exit" THEN Exit(t.code, t.at) ELSE Goto(t.pc)

\* variant: "No projects found." ends the process with status 0
AfterProjects_ExitZero(ps) ==
    IF Len(ps) = 0 THEN Quit(0, "no_projects")
    ELSE IF Len(ps) > 1 THEN Stay("sp_choose")
    ELSE Stay("select_deployment")

\* select_project after  projects = discovery.list_projects(filter_term)
AfterProjects(ps) ==
    IF Len(ps) = 0 THEN Quit(1, "no_projects")
    ELSE IF AsksUser(ps) THEN Stay("sp_choose")
    ELSE Stay("select_deployment")

\* select_project up to the input() of select_from_list
SelectProject ==
    /\ pc = "select_project"
    /\ io' = <<"list_projects">>
    /\ \E out \in AzProjectOutcomes :
          IF ListProjectsCall(out, filter_term).kind = "raise"
          THEN UNCHANGED projVars /\ Exit(1, "uncaught_error")
          ELSE /\ projects' = ListProjectsCall(out, filter_term).value
               /\ Transfer(AfterProjects(projects'))
               /\ project' = IF AfterProjects(projects').pc = "select_deployment"
                             THEN projects'[SelectFromList(projects', EndOfInput) + 1]
                             ELSE project
    /\ UNCHANGED <<fnVars, typed, argVars, envVars, config, sdVars, baVars, outVars, logVars>>

\* "Select project (1-n)" and the rest of select_project
ChooseProject ==
    /\ pc = "sp_choose"
    /\ io' = Append(io, "input:project")
    /\ \E inp \in ChoiceInputs :
          LET idx == SelectFromList(projects, inp)
          IN  /\ typed' = inp
              /\ IF idx = Eof THEN project' = project /\ Exit(1, "uncaught_error")
                 ELSE IF idx = None
                 THEN project' = project /\ Exit(1, "no_project_selected")
                 ELSE project' = projects[idx + 1] /\ Goto("select_deployment")
    /\ UNCHANGED <<fnVars, argVars, envVars, config, projects, sdVars, baVars, outVars, logVars>>

(* ---------------------------- select_deployment ------------------------ *)
\* variant: the deploy offer is made whatever the pre-check said
AfterQuota_IgnoresQuota(hq, br) == Stay("sd_deploy_prompt")

\* after has_quota, quota_msg = _check_model_quota(...)
AfterQuota(hq, br) ==
    IF hq THEN Stay("sd_deploy_prompt")
    ELSE IF br = "empty" THEN Quit(1, "no_quota")
    ELSE Stay("sd_select")

\* after the answer to "Deploy '<hint>' now/instead? (Y/n)"
AfterDeployPrompt(resp, br) ==
    IF ~IsNo(resp) THEN Stay("sd_deploy")
    ELSE IF br = "empty" THEN Stay("sd_match")
    ELSE Stay("sd_select")

\* variant: a successful deploy goes to the selection without a re-query
AfterDeploy_NoRequery(ok, br) ==
    IF ok THEN Stay("sd_select")
    ELSE IF br = "empty" THEN Quit(1, "deploy_failed")
    ELSE Stay("sd_select")

\* after _deploy_model(...)
AfterDeploy(ok, br) ==
    IF ok THEN Stay("sd_requery")
    ELSE IF br = "empty" THEN Quit(1, "deploy_failed")
    ELSE Stay("sd_select")

\* variant: only an explicit 'y' accepts the proposed deployment
AfterUsePrompt_OnlyY(resp) == IF resp = <<"y">> THEN Stay("sd_return") ELSE Stay("sd_quota")

\* after the answer to "Use '<deployment>'? (Y/n)"
AfterUsePrompt(resp) == IF ~IsNo(resp) THEN Stay("sd_return") ELSE Stay("sd_quota")

\* select_deployment: the first listing and the  if not deployments  test
SelectDeployment ==
    /\ pc = "select_deployment"
    /\ io' = <<"list_deployments">>
    /\ projects' = <<>>
    /\ typed' = NoInput
    /\ \E out \in AzDeploymentOutcomes :
          /\ deployments' = ListDeploymentsCall(out).value
          /\ IF Len(deployments') > 0 THEN branch' = branch /\ Goto("sd_match")
             ELSE IF Len(config.model_hint) > 0 THEN branch' = "empty" /\ Goto("sd_quota")
             ELSE branch' = branch /\ Exit(1, "no_deployments")
    /\ UNCHANGED <<fnVars, argVars, envVars, config, project, baVars, outVars, logVars>>
    /\ UNCHANGED <<partial_matches, has_quota, quota_msg, response, deployment>>

\* the quota pre-check of the current branch
CheckQuota ==
    /\ pc = "sd_quota"
    /\ \E out \in QuotaOutcomes :
          /\ has_quota' = CheckModelQuota(out, config.model_hint)
          /\ quota_msg' = QuotaMessage(out, config.model_hint)
          /\ io' = Append(io, IF has_quota' THEN "quota:yes" ELSE "quota:no")
          /\ Transfer(AfterQuota(has_quota', branch))
    /\ UNCHANGED <<fnVars, typed, argVars, envVars, config, projVars, baVars, outVars, logVars>>
    /\ UNCHANGED <<deployments, partial_matches, branch, response, deployment>>

\* "Deploy '<hint>' now? (Y/n)" / "Deploy '<hint>' instead? (Y/n)"
DeployPrompt ==
    /\ pc = "sd_deploy_prompt"
    /\ io' = Append(io, "input:deploy")
    /\ \E inp \in YesNoInputs :
          IF inp.kind # "line" THEN response' = response /\ InputAborts(inp)
          ELSE /\ response' = Answer(inp)
               /\ Transfer(AfterDeployPrompt(response', branch))
    /\ UNCHANGED <<fnVars, typed, argVars, envVars, config, projVars, baVars, outVars, logVars>>
    /\ UNCHANGED <<deployments, partial_matches, branch, has_quota, quota_msg, deployment>>

\* _deploy_model: the script is run unless it is missing
DeployModel ==
    /\ pc = "sd_deploy"
    /\ \E o \in DeployOutcomes :
          /\ io' = Append(io, IF o = "missing" THEN "script:missing"
                              ELSE IF o = "ok" THEN "script:ok" ELSE "script:failed")
          /\ Transfer(AfterDeploy(DeploySucceeded(o), branch))
    /\ UNCHANGED <<fnVars, typed, argVars, envVars, config, projVars, sdVars, baVars, outVars, logVars>>

\* "Refreshing deployments..." and the search that follows it
RequeryDeployments ==
    /\ pc = "sd_requery"
    /\ io' = Append(io, "list_deployments")
    /\ \E out \in AzDeploymentOutcomes :
          /\ deployments' = ListDeployments(out)
          /\ IF branch = "empty"
             THEN /\ deployment' = deployment
                  /\ IF Len(deployments') = 0 THEN Exit(1, "still_no_deployments")
                     ELSE Goto("sd_match")
             ELSE LET i == FirstNewlyDeployed(branch, config.model_hint, deployments')
                  IN  IF i > 0 THEN deployment' = deployments'[i] /\ Goto("sd_return")
                      ELSE deployment' = deployment /\ Goto("sd_select")
    /\ UNCHANGED <<fnVars, typed, argVars, envVars, config, projVars, baVars, outVars, logVars>>
    /\ UNCHANGED <<partial_matches, branch, has_quota, quota_msg, response>>

\* if model_hint: exact pass, then the partial matches and their branches
MatchHint ==
    /\ pc = "sd_match"
    /\ IF Len(config.model_hint) = 0
       THEN Goto("sd_select") /\ UNCHANGED <<partial_matches, branch, deployment>>
       ELSE LET i == FirstExact(config.model_hint, deployments)
            IN  IF i > 0
                THEN /\ deployment' = deployments[i]
                     /\ Goto("sd_return")
                     /\ UNCHANGED <<partial_matches, branch>>
                ELSE /\ partial_matches' = PartialMatches(config.model_hint, deployments)
                     /\ deployment' = deployment
                     /\ IF Len(partial_matches') = 1
                        THEN branch' = "single" /\ Goto("sd_use_prompt")
                        ELSE IF Len(partial_matches') > 1
                        THEN branch' = "multi" /\ Goto("sd_quota")
                        ELSE branch' = "none" /\ Goto("sd_quota")
    /\ UNCHANGED <<fnVars, typed, argVars, envVars, config, projVars, baVars, outVars, io, logVars>>
    /\ UNCHANGED <<deployments, has_quota, quota_msg, response>>

\* "Use '<deployment>'? (Y/n)"
UsePrompt ==
    /\ pc = "sd_use_prompt"
    /\ io' = Append(io, "input:use")
    /\ \E inp \in YesNoInputs :
          IF inp.kind # "line"
          THEN UNCHANGED <<response, deployment>> /\ InputAborts(inp)
          ELSE /\ response' = Answer(inp)
               /\ Transfer(AfterUsePrompt(response'))
               /\ deployment' = IF AfterUsePrompt(response').pc = "sd_return"
                                THEN partial_matches[1] ELSE deployment
    /\ UNCHANGED <<fnVars, typed, argVars, envVars, config, projVars, baVars, outVars, logVars>>
    /\ UNCHANGED <<deployments, partial_matches, branch, has_quota, quota_msg>>

\* idx = select_from_list(deployments, ...) up to its input()
SelectFromDeployments ==
    /\ pc = "sd_select"
    /\ IF Len(deployments) = 0
       THEN deployment' = deployment /\ Exit(1, "no_deployment_selected")
       ELSE IF AsksUser(deployments) THEN deployment' = deployment /\ Goto("sd_choose")
       ELSE /\ deployment' = deployments[SelectFromList(deployments, EndOfInput) + 1]
            /\ Goto("sd_return")
    /\ UNCHANGED <<fnVars, typed, argVars, envVars, config, projVars, baVars, outVars, io, logVars>>
    /\ UNCHANGED <<deployments, partial_matches, branch, has_quota, quota_msg, response>>

\* "Select deployment (1-n)" and the rest of select_deployment
ChooseDeployment ==
    /\ pc = "sd_choose"
    /\ io' = Append(io, "input:deployment")
    /\ \E inp \in ChoiceInputs :
          LET idx == SelectFromList(deployments, inp)
          IN  /\ typed' = inp
              /\ IF idx = Eof THEN deployment' = deployment /\ Exit(1, "uncaught_error")
                 ELSE IF idx = None
                 THEN deployment' = deployment /\ Exit(1, "no_deployment_selected")
                 ELSE deployment' = deployments[idx + 1] /\ Goto("sd_return")
    /\ UNCHANGED <<fnVars, argVars, envVars, config, projVars, baVars, outVars, logVars>>
    /\ UNCHANGED <<deployments, partial_matches, branch, has_quota, quota_msg, response>>

(* ------------------- confirmation and AgentBuilder --------------------- *)
\* "Create agent? (Y/n)" after select_deployment returned (its locals are gone)
Confirm ==
    /\ pc = "sd_return"
    /\ io' = <<"input:confirm">>
    /\ deployments' = <<>>
    /\ partial_matches' = <<>>
    /\ branch' = "returned"
    /\ has_quota' = FALSE
    /\ quota_msg' = "none"
    /\ typed' = NoInput
    /\ \E inp \in YesNoInputs :
          IF inp.kind # "line" THEN response' = response /\ InputAborts(inp)
          ELSE /\ response' = Answer(inp)
               /\ IF IsNo(response') THEN Exit(0, "cancelled") ELSE Goto("create_agent")
    /\ UNCHANGED <<fnVars, argVars, envVars, config, projVars, baVars, outVars, logVars>>
    /\ UNCHANGED deployment

\* AgentBuilder(project.endpoint), then create_agent up to its loop:
\* client = self._get_client() constructs the first handle
BeginCreateAgent ==
    /\ pc = "create_agent"
    /\ clientCount' = GetClient(self_client, clientCount).count
    /\ self_client' = GetClient(self_client, clientCount).handle
    /\ client' = self_client'
    /\ current_name' = config.name
    /\ io' = <<>>
    /\ response' = <<>>
    /\ Goto("ba_create")
    /\ UNCHANGED <<fnVars, typed, argVars, envVars, config, projVars, outVars, logVars>>
    /\ UNCHANGED <<deployments, partial_matches, branch, has_quota, quota_msg, deployment>>
    /\ UNCHANGED <<new_name, agent, raised, result>>

\* agent = client.agents.create(name=current_name, definition=definition)
CreateCall ==
    /\ pc = "ba_create"
    /\ io' = Append(io, "create")
    /\ \E out \in CreateOutcomes(current_name) :
          /\ out.kind = "exists" => Len(createLog) < MaxCollisions
          /\ createLog' = Append(createLog,
                                 [name |-> current_name, client |-> client, outcome |-> out.kind])
          /\ IF out.kind = "ok" THEN agent' = out /\ raised' = raised /\ Goto("ba_verify")
             ELSE IF out.kind = "exists"
             THEN agent' = agent /\ raised' = raised /\ Goto("ba_name_prompt")
             ELSE agent' = agent /\ raised' = "Exception" /\ Goto("ba_raised")
    /\ UNCHANGED <<fnVars, typed, argVars, envVars, config, projVars, sdVars, outVars, getLog>>
    /\ UNCHANGED <<self_client, client, clientCount, current_name, new_name, result>>

\* except ResourceExistsError: ask for another name, take a fresh client
NamePrompt ==
    /\ pc = "ba_name_prompt"
    /\ io' = Append(io, "input:name")
    /\ \E inp \in NameInputs :
          IF inp.kind # "line"
          THEN /\ raised' = IF inp.kind = "eof" THEN "EOFError" ELSE "KeyboardInterrupt"
               /\ Goto("ba_raised")
               /\ UNCHANGED <<self_client, client, clientCount, current_name, new_name>>
          ELSE /\ new_name' = Strip(inp.text)
               /\ IF IsCancel(new_name')
                  THEN /\ raised' = "RuntimeError"
                       /\ Goto("ba_raised")
                       /\ UNCHANGED <<self_client, client, clientCount, current_name>>
                  ELSE /\ current_name' = RetryName(current_name, new_name')
                       /\ clientCount' =
                             GetClient(ForgetClient(self_client), clientCount).count
                       /\ self_client' =
                             GetClient(ForgetClient(self_client), clientCount).handle
                       /\ client' = self_client'
                       /\ IF LoopCondition(Len(createLog))
                          THEN raised' = raised /\ Goto("ba_create")
                          ELSE raised' = "RuntimeError" /\ Goto("ba_raised")
    /\ UNCHANGED <<fnVars, typed, argVars, envVars, config, projVars, sdVars, outVars, logVars>>
    /\ UNCHANGED <<agent, result>>

\* verified = client.agents.get(agent_name=current_name), then the return
VerifyAgent ==
    /\ pc = "ba_verify"
    /\ io' = Append(io, "get")
    /\ \E v \in VerifyOutcomes :
          /\ getLog' = Append(getLog, [name |-> current_name, client |-> client, outcome |-> v])
          /\ IF VerificationFails(v)
             THEN raised' = "RuntimeError" /\ result' = result /\ Goto("ba_raised")
             ELSE /\ result' = CreatedAgent(agent, current_name, ModelArgument(deployment),
                                            RStripSlash(EndpointOf(project)),
                                            project.resource_group, project.name)
                  /\ raised' = raised
                  /\ Goto("ba_returned")
    /\ UNCHANGED <<fnVars, typed, argVars, envVars, config, projVars, sdVars, outVars, createLog>>
    /\ UNCHANGED <<self_client, client, clientCount, current_name, new_name, agent>>

\* variant: the except clause reports the error and ends with status 0
CreateFailed_ExitsZero ==
    /\ pc = "ba_raised"
    /\ Exit(0, "create_error")
    /\ UNCHANGED <<fnVars, typed, argVars, envVars, config, projVars, sdVars, baVars, outVars, io, logVars>>

\* except Exception as e: ... sys.exit(1); KeyboardInterrupt is not caught
CreateFailed ==
    /\ pc = "ba_raised"
    /\ IF raised = "KeyboardInterrupt" THEN Exit(130, "interrupt")
       ELSE Exit(1, "create_error")
    /\ UNCHANGED <<fnVars, typed, argVars, envVars, config, projVars, sdVars, baVars, outVars, io, logVars>>

\* info_file.write_text(...): an OSError lands in the same except clause
WriteSidecar ==
    /\ pc = "ba_returned"
    /\ io' = Append(io, "write")
    /\ \E ok \in BOOLEAN :
          IF ok THEN /\ sidecar' = SidecarText(config, result)
                     /\ Goto(IF test THEN "test" ELSE "done")
          ELSE sidecar' = sidecar /\ Exit(1, "create_error")
    /\ UNCHANGED <<fnVars, typed, argVars, envVars, config, projVars, sdVars, baVars, testResponse, logVars>>

\* builder.test_agent(result.name, "Hello!") returns text or "Error: ...";
\* the call is inside the try block, whose except clause exits with 1
TestAgent ==
    /\ pc = "test"
    /\ io' = <<"chat">>
    /\ \E o \in ChatCallOutcomes :
          LET r == BuilderTestAgent(o)
          IN  IF r.kind = "return" THEN testResponse' = r.value /\ Goto("done")
              ELSE testResponse' = testResponse /\ Exit(1, "create_error")
    /\ UNCHANGED <<fnVars, typed, argVars, envVars, config, projVars, sdVars, baVars, sidecar, logVars>>

\* "Your Azure AI agent is ready to use." and the normal end of the process
Done ==
    /\ pc = "done"
    /\ Exit(0, "done")
    /\ UNCHANGED <<fnVars, typed, argVars, envVars, config, projVars, sdVars, baVars, outVars, io, logVars>>

Next ==
    \/ Main \/ CheckAzureCli \/ ParseDefinition \/ CheckAzureRoles \/ DiscoveryInit
    \/ CheckLogin \/ LoginPrompt \/ LoginDeviceCode \/ GetSubscription \/ EnvLoginChange
    \/ SelectProject \/ ChooseProject
    \/ SelectDeployment \/ CheckQuota \/ DeployPrompt \/ DeployModel \/ RequeryDeployments
    \/ MatchHint \/ UsePrompt \/ SelectFromDeployments \/ ChooseDeployment
    \/ Confirm \/ BeginCreateAgent \/ CreateCall \/ NamePrompt \/ VerifyAgent
    \/ CreateFailed \/ WriteSidecar \/ TestAgent \/ Done

Spec == Init /\ [][Next]_vars

(* ============== the library operations, invoked on their own ========== *)
\* no process of create-agent is running; the operation named by call runs
flowVars == <<ctlVars, typed, argVars, envVars, config, projVars, sdVars, baVars, outVars,
              io, logVars>>

\* _check_model_quota(location, model_name) against the answers of the CLI
QuotaCalls ==
    {[fn |-> "_check_model_quota", out |-> o, model_name |-> m] :
        o \in QuotaOutcomes, m \in {Hint, <<"x">>}}

CallCheckModelQuota ==
    /\ call.fn = "_check_model_quota"
    /\ ret = NoReturn
    /\ ret' = Return(<<CheckModelQuota(call.out, call.model_name),
                       QuotaMessage(call.out, call.model_name)>>)
    /\ UNCHANGED <<call, flowVars>>

\* parse_agent_yaml(file_path) on the definition files, and on a missing file
ParseCalls ==
    {[fn |-> "parse_agent_yaml", exists |-> TRUE, file |-> f] : f \in DefinitionFiles}
        \cup {[fn |-> "parse_agent_yaml", exists |-> FALSE,
                file |-> [opening |-> <<>>, header |-> <<>>, closing |-> <<>>,
                          body |-> <<>>, content |-> <<>>]]}

CallParseAgentYaml ==
    /\ call.fn = "parse_agent_yaml"
    /\ ret = NoReturn
    /\ ret' = ParseAgentYaml(call.exists, call.file.content)
    /\ UNCHANGED <<call, flowVars>>

\* the three listings of AzureDiscovery against the answers of the CLI
ListingCalls ==
    {[fn |-> "list_projects", out |-> o, filter_term |-> f] :
        o \in AzProjectOutcomes, f \in {<<>>, <<"A">>}}
      \cup {[fn |-> "list_resources", out |-> o, filter_term |-> f] :
        o \in AzResourceOutcomes, f \in {<<>>, <<"A">>}}
      \cup {[fn |-> "list_deployments", out |-> o, filter_term |-> <<>>] :
        o \in AzDeploymentOutcomes}

CallListProjects ==
    /\ call.fn = "list_projects"
    /\ ret = NoReturn
    /\ ret' = ListProjectsCall(call.out, call.filter_term)
    /\ UNCHANGED <<call, flowVars>>

CallListResources ==
    /\ call.fn = "list_resources"
    /\ ret = NoReturn
    /\ ret' = ListResourcesCall(call.out, call.filter_term)
    /\ UNCHANGED <<call, flowVars>>

CallListDeployments ==
    /\ call.fn = "list_deployments"
    /\ ret = NoReturn
    /\ ret' = ListDeploymentsCall(call.out)
    /\ UNCHANGED <<call, flowVars>>

\* list_agents, delete_agent and test_agent against the answers of the service
BuilderCalls ==
    {[fn |-> "list_agents", listing |-> o] : o \in ListAgentsOutcomes}
      \cup {[fn |-> "delete_agent", deletion |-> o] : o \in DeleteOutcomes}
      \cup {[fn |-> "test_agent", chat |-> o] : o \in ChatCallOutcomes}

CallListAgents ==
    /\ call.fn = "list_agents"
    /\ ret = NoReturn
    /\ ret' = ListAgents(call.listing)
    /\ UNCHANGED <<call, flowVars>>

CallDeleteAgent ==
    /\ call.fn = "delete_agent"
    /\ ret = NoReturn
    /\ ret' = DeleteAgent(call.deletion)
    /\ UNCHANGED <<call, flowVars>>

CallTestAgent ==
    /\ call.fn = "test_agent"
    /\ ret = NoReturn
    /\ ret' = BuilderTestAgent(call.chat)
    /\ UNCHANGED <<call, flowVars>>

Calls == QuotaCalls \cup ParseCalls \cup ListingCalls \cup BuilderCalls

InitCalls ==
    /\ pc = "library"
    /\ filter_term = <<>>
    /\ test = FALSE
    /\ loggedIn = TRUE
    /\ Fresh
    /\ call \in Calls
    /\ ret = NoReturn

NextCalls ==
    \/ CallCheckModelQuota
    \/ CallParseAgentYaml
    \/ CallListProjects \/ CallListResources \/ CallListDeployments
    \/ CallListAgents \/ CallDeleteAgent \/ CallTestAgent

SpecCalls == InitCalls /\ [][NextCalls]_vars

(* ====================== test-agent.py: test_agent ===================== *)
\* what input("\nYou: ") can produce
ReplInputs ==
    {Line(<<"e", "x", "i", "t">>), Line(<<" ", "Q", "U", "I", "T", " ">>), Line(<<"E", "x", "i", "t">>),
     Line(<<"e", "x", "i", "t", "s">>), Line(<<"h", "i">>), Line(<<>>), Line(<<" ", " ">>),
     EndOfInput, Interrupt}

\* ['exit', 'quit']
QuitWords == {<<"e", "x", "i", "t">>, <<"q", "u", "i", "t">>}

\* variant: an empty line is sent to the agent like any other
AfterUserInput_SendsEmpty(user_input) ==
    IF Lower(user_input) \in QuitWords THEN "ta_sample" ELSE "repl_chat"

\* the loop body after  user_input = input("\nYou: ").strip()
AfterUserInput(user_input) ==
    IF Lower(user_input) \in QuitWords THEN "ta_sample"
    ELSE IF Len(user_input) = 0 THEN "repl_input"
    ELSE "repl_chat"

\* responses.create returned, raised an Exception, or was interrupted
ChatOutcomes == {"ok", "error", "interrupt"}

\* the loop body after the chat call
AfterChat(o) == IF o = "ok" THEN "repl_input" ELSE "ta_sample"

\* the lines read so far
InputsRead == Cardinality({k \in 1..Len(io) : io[k] = "input:you"})

\* client.agents.get(agent_name=agent_name): on an exception test_agent returns
TaGetAgent ==
    /\ pc = "ta_get"
    /\ io' = Append(io, "get")
    /\ \E found \in BOOLEAN : Goto(IF found THEN "ta_openai" ELSE "ta_returned")
    /\ UNCHANGED <<fnVars, typed, argVars, envVars, config, projVars, sdVars, baVars, outVars,
                   logVars>>

\* client.get_openai_client(): on an exception test_agent returns
TaOpenAiClient ==
    /\ pc = "ta_openai"
    /\ io' = Append(io, "get_openai_client")
    /\ \E ok \in BOOLEAN : Goto(IF ok THEN "repl_input" ELSE "ta_returned")
    /\ UNCHANGED <<fnVars, typed, argVars, envVars, config, projVars, sdVars, baVars, outVars,
                   logVars>>

\* input("\nYou: ") and the tests on the line; EOFError and KeyboardInterrupt
\* are caught around the loop body and leave the loop
ReplInput ==
    /\ pc = "repl_input"
    /\ InputsRead < MaxReplInputs
    /\ io' = Append(io, "input:you")
    /\ \E inp \in ReplInputs :
          /\ typed' = inp
          /\ Goto(IF inp.kind # "line" THEN "ta_sample" ELSE AfterUserInput(Strip(inp.text)))
    /\ UNCHANGED <<fnVars, argVars, envVars, config, projVars, sdVars, baVars, outVars, logVars>>

\* openai_client.responses.create(...) and the printing of the answer
ReplChat ==
    /\ pc = "repl_chat"
    /\ \E o \in ChatOutcomes :
          /\ io' = Append(io, IF o = "ok" THEN "chat:ok"
                              ELSE IF o = "error" THEN "chat:error" ELSE "chat:interrupt")
          /\ Goto(AfterChat(o))
    /\ UNCHANGED <<fnVars, typed, argVars, envVars, config, projVars, sdVars, baVars, outVars,
                   logVars>>

\* print_code_sample(agent_name, endpoint) after the loop
PrintCodeSample ==
    /\ pc = "ta_sample"
    /\ io' = Append(io, "code_sample")
    /\ Goto("ta_returned")
    /\ UNCHANGED <<fnVars, typed, argVars, envVars, config, projVars, sdVars, baVars, outVars,
                   logVars>>

InitRepl ==
    /\ pc = "ta_get"
    /\ filter_term = <<>>
    /\ test = FALSE
    /\ loggedIn = TRUE
    /\ Fresh
    /\ call = NoCall
    /\ ret = NoReturn

NextRepl ==
    \/ TaGetAgent \/ TaOpenAiClient \/ ReplInput \/ ReplChat \/ PrintCodeSample

SpecRepl == InitRepl /\ [][NextRepl]_vars

(* ======================= properties of the flow ======================= *)
\* case-insensitive comparison, stated without str.lower()
SameCharIgnoringCase(c, d) ==
    c = d \/ {c, d} \in {{"a", "A"}, {"b", "B"}, {"n", "N"}, {"q", "Q"}, {"y", "Y"},
                          {"e", "E"}, {"i", "I"}, {"t", "T"}, {"u", "U"}, {"x", "X"}}
SameIgnoringCase(a, b) ==
    Len(a) = Len(b) /\ \A i \in 1..Len(a) : SameCharIgnoringCase(a[i], b[i])
ContainsIgnoringCase(h, t) ==
    \E k \in 0..(Len(t) - Len(h)) : \A j \in 1..Len(h) : SameCharIgnoringCase(h[j], t[k + j])
HintEquals(d) ==
    SameIgnoringCase(config.model_hint, d.deployment_name)
        \/ SameIgnoringCase(config.model_hint, d.model_name)
HintWithin(d) ==
    ContainsIgnoringCase(config.model_hint, d.deployment_name)
        \/ ContainsIgnoringCase(config.model_hint, d.model_name)

\* the process ended in an input() call that raised
InputAborted == pc = "exit" /\ exitAt \in {"uncaught_error", "interrupt"}
\* the read-back of the last create call returned an object with an id
ReadBackOk ==
    /\ Len(getLog) = 1
    /\ getLog[1].outcome.kind = "value"
    /\ getLog[1].outcome.truthy
    /\ getLog[1].outcome.id \notin {NoId, ""}
\* positions of the events of a kind in the log of the current section
Positions(E) == {k \in 1..Len(io) : io[k] \in E}
ScriptFailures == {"script:failed", "script:missing"}
ScriptRuns == {"script:ok", "script:failed"}
ProvisioningEvents == {"input:deploy", "script:ok", "script:failed", "script:missing"}

\* C1: a first create call that collides, followed by a new name that does
\* not collide, gives exactly two create calls; the second create call and
\* the read-back use the new name, and the CreatedAgent carries the new name,
\* not the original one.
C1_RetryOnceWithNewName ==
    (Len(createLog) >= 2 /\ createLog[1].outcome = "exists" /\ createLog[2].outcome = "ok")
        => /\ Len(createLog) = 2
           /\ createLog[2].name = new_name
           /\ Len(getLog) <= 1
           /\ \A i \in 1..Len(getLog) : getLog[i].name = new_name
           /\ result # NoResult =>
                 /\ Len(getLog) = 1
                 /\ result.name = new_name
                 /\ new_name # createLog[1].name => result.name # createLog[1].name

C1_Witness ==
    /\ result # NoResult
    /\ Len(createLog) = 2
    /\ createLog[1].outcome = "exists"
    /\ createLog[1].name = config.name
    /\ new_name # config.name
    /\ result.name = <<"n", "e", "w">>

\* C2: create_agent returns a CreatedAgent only after the read-back by the
\* final name returned a non-empty id; a read-back that raises, returns nothing
\* or returns no id makes create_agent raise although the create call returned.
C2_VerifiedOrRaised ==
    /\ (result # NoResult \/ pc = "ba_returned") =>
          /\ ReadBackOk
          /\ getLog[1].name = current_name
          /\ createLog[Len(createLog)].outcome = "ok"
    /\ (Len(getLog) > 0 /\ ~ReadBackOk) =>
          /\ result = NoResult
          /\ raised = "RuntimeError"
          /\ pc \in {"ba_raised", "exit"}
          /\ pc = "exit" => status = 1

C2_Witness ==
    /\ pc = "ba_raised"
    /\ createLog[Len(createLog)].outcome = "ok"
    /\ Len(getLog) = 1
    /\ getLog[1].outcome.kind = "value"
    /\ getLog[1].outcome.truthy
    /\ getLog[1].outcome.id = ""

\* the places where the flow gives up
UnrecoverableFailures ==
    {"file_missing", "parse_error", "cli_missing", "not_logged_in", "roles_missing",
     "login_declined", "login_failed", "no_projects", "no_project_selected",
     "no_deployments", "no_deployment_selected", "no_quota", "deploy_failed",
     "still_no_deployments", "create_error"}

\* C3: the process exits with status 0 only when the agent was created and
\* verified, or when the user answered 'n' to "Create agent?"; every
\* unrecoverable failure exits with status 1.
C3_ExitStatus ==
    pc = "exit" =>
        /\ status = 0 =>
              \/ /\ exitAt = "done"
                 /\ result # NoResult
                 /\ ReadBackOk
                 /\ createLog[Len(createLog)].outcome = "ok"
              \/ /\ exitAt = "cancelled"
                 /\ io = <<"input:confirm">>
                 /\ IsNo(response)
                 /\ createLog = <<>>
        /\ exitAt \in UnrecoverableFailures => status = 1
        /\ (config = NoConfig \/ project = NoProject \/ deployment = NoDeployment) => status # 0
        /\ raised # "none" => status # 0
        /\ (raised = "RuntimeError" /\ getLog = <<>>) =>
              (createLog[Len(createLog)].outcome = "exists" /\ status = 1)

C3_Witness == pc = "exit" /\ status = 0 /\ exitAt = "done" /\ sidecar.written

\* C4: within one run of select_deployment the provisioning script is run at
\* most once and the listing is re-queried at most once after the first listing.
C4_ProvisionAtMostOnce ==
    (Len(io) > 0 /\ io[1] = "list_deployments") =>
        /\ Cardinality(Positions(ScriptRuns)) <= 1
        /\ Cardinality(Positions({"list_deployments"})) <= 2

ExactIndexes == {i \in 1..Len(deployments) : HintEquals(deployments[i])}
WithinIndexes == {i \in 1..Len(deployments) : HintWithin(deployments[i])}
\* deployments is still the first listing of this run of select_deployment
FirstListing ==
    /\ Len(io) > 0
    /\ io[1] = "list_deployments"
    /\ Cardinality(Positions({"list_deployments"})) = 1
    /\ Len(deployments) > 0

\* C7: with a non-empty first listing in which the hint equals, ignoring case,
\* the deployment name or the model name of some deployment, select_deployment
\* returns the first such deployment without input, quota check or provisioning.
C7_ExactMatchAutoSelected ==
    (FirstListing /\ Len(config.model_hint) > 0 /\ ExactIndexes # {} /\ pc # "sd_match")
        => /\ pc = "sd_return"
           /\ io = <<"list_deployments">>
           /\ \E i \in ExactIndexes :
                 /\ deployment = deployments[i]
                 /\ \A j \in ExactIndexes : i <= j

C7_Witness ==
    /\ pc = "sd_return"
    /\ FirstListing
    /\ Len(deployments) = 2
    /\ deployment = deployments[2]
    /\ HintWithin(deployments[1])
    /\ SameIgnoringCase(config.model_hint, deployment.model_name)

\* C8: without an exact match and with exactly one deployment containing the
\* hint, that deployment is proposed ("Use ...?") and returned at once for any
\* answer other than 'n', with no quota check and no provisioning in between;
\* on a first listing nothing but the listing precedes the proposal.
C8_SinglePartialProposed ==
    /\ (FirstListing /\ Len(config.model_hint) > 0 /\ ExactIndexes = {}
            /\ Cardinality(WithinIndexes) = 1 /\ pc # "sd_match")
          => \/ pc = "sd_use_prompt" /\ io = <<"list_deployments">>
             \/ Len(io) >= 2 /\ io[2] = "input:use"
    /\ (Len(io) >= 2 /\ io[Len(io)] = "input:use" /\ ~InputAborted)
          => /\ ExactIndexes = {}
             /\ Cardinality(WithinIndexes) = 1
             /\ FirstListing => Len(io) = 2
             /\ IF response = <<"n">> THEN pc = "sd_quota"
                ELSE /\ pc = "sd_return"
                     /\ \A i \in WithinIndexes : deployment = deployments[i]

C8_Witness ==
    /\ pc = "sd_return"
    /\ io = <<"list_deployments", "input:use">>
    /\ response = <<>>
    /\ Len(deployments) = 2
    /\ deployment = deployments[2]

\* C9: an empty project listing (after filtering) ends the process with a
\* non-zero status before any prompt, deployment listing, quota check or
\* agent creation call.
C9_NoProjectsExits ==
    (Len(io) > 0 /\ io[1] = "list_projects" /\ Len(projects) = 0 /\ exitAt # "uncaught_error")
        => /\ pc = "exit"
           /\ status = 1
           /\ io = <<"list_projects">>
           /\ project = NoProject
           /\ branch = "start"
           /\ deployments = <<>>
           /\ ~has_quota
           /\ clientCount = 0
           /\ createLog = <<>>
           /\ getLog = <<>>

C9_Witness ==
    /\ pc = "exit"
    /\ exitAt = "no_projects"
    /\ Len(filter_term) > 0
    /\ io = <<"list_projects">>

\* C10: select_from_list on a one-element list returns index 0 whatever the
\* terminal would produce, and select_project with a single matching project
\* returns that project without reading input.
C10_SingleItemAutoSelected ==
    /\ \A p \in RawProjectPool, inp \in ChoiceInputs : SelectFromList(<<p>>, inp) = 0
    /\ (Len(io) > 0 /\ io[1] = "list_projects" /\ Len(projects) = 1)
          => /\ pc = "select_deployment"
             /\ io = <<"list_projects">>
             /\ project = projects[1]

C10_Witness ==
    /\ pc = "select_deployment"
    /\ Len(projects) = 1
    /\ Len(filter_term) > 0
    /\ project = projects[1]


(* ------------------------- numbered choices ---------------------------- *)
DecimalDigits == <<"0", "1", "2", "3", "4", "5", "6", "7", "8", "9">>

\* text is the one-digit numeral of k, possibly surrounded by blanks
Denotes(text, k) ==
    \E i \in 1..Len(text) :
        /\ text[i] = DecimalDigits[k + 1]
        /\ \A j \in 1..Len(text) : j # i => text[j] = " "

\* the line typed at the last numbered choice is the integer k
TypedIs(k) == typed.kind = "line" /\ Denotes(typed.text, k)

\* the prompt answered last
LastPrompt == IF io = <<>> THEN "none" ELSE io[Len(io)]

\* C11: a numbered choice is only offered for two or more items; typing the
\* integer k with 1 <= k <= n selects item k (index k-1) and the flow goes on
\* with it; every other line (non-numeric, empty, 0, negative, greater than n)
\* and an interrupt select nothing and the process exits with status 1 at
\* "No project selected" / "No deployment selected".  (End of input is not a
\* line: its EOFError is not caught and ends the process with status 1 too.)
C11_ChoiceIsValidIndexOrCancel ==
    /\ LastPrompt = "input:project" =>
          /\ Len(projects) >= 2
          /\ \A k \in 1..Len(projects) :
                TypedIs(k) => pc = "select_deployment" /\ project = projects[k]
          /\ (~ \E k \in 1..Len(projects) : TypedIs(k)) =>
                /\ pc = "exit" /\ status = 1 /\ project = NoProject
                /\ exitAt = IF typed.kind = "eof" THEN "uncaught_error"
                            ELSE "no_project_selected"
    /\ LastPrompt = "input:deployment" =>
          /\ Len(deployments) >= 2
          /\ \A k \in 1..Len(deployments) :
                TypedIs(k) => pc = "sd_return" /\ deployment = deployments[k]
          /\ (~ \E k \in 1..Len(deployments) : TypedIs(k)) =>
                /\ pc = "exit" /\ status = 1 /\ deployment = NoDeployment
                /\ exitAt = IF typed.kind = "eof" THEN "uncaught_error"
                            ELSE "no_deployment_selected"

\* the second of two deployments was picked by typing " 2"
C11_Witness ==
    /\ LastPrompt = "input:deployment"
    /\ typed = Line(<<" ", "2">>)
    /\ Len(deployments) = 2
    /\ pc = "sd_return"
    /\ deployment = deployments[2]

\* an out-of-range number cancelled the choice of a project
C11_WitnessCancel ==
    /\ LastPrompt = "input:project"
    /\ typed = Line(<<"3">>)
    /\ Len(projects) = 2
    /\ pc = "exit"
    /\ exitAt = "no_project_selected"


(* --------------------------- quota check ------------------------------- *)
\* the last quota check could not be made: the usage query exited non-zero,
\* or its output could not be read
QuotaCheckFailed ==
    quota_msg \in {"(quota check unavailable)", "(quota check error)"}

\* C13: a quota check that itself failed reports quota as available, the
\* deploy offer is the next step, and the process does not end with the
\* "no quota" exit.
C13_FailedQuotaCheckIsNonFatal ==
    QuotaCheckFailed =>
        /\ has_quota
        /\ exitAt # "no_quota"
        /\ LastPrompt \in {"quota:yes", "quota:no"} =>
              LastPrompt = "quota:yes" /\ pc = "sd_deploy_prompt"

\* the usage query exited non-zero and the deploy offer is about to be made
C13_Witness ==
    /\ quota_msg = "(quota check unavailable)"
    /\ LastPrompt = "quota:yes"
    /\ pc = "sd_deploy_prompt"
    /\ has_quota


\* C12 is stated without str.lower() and without the loop of the code
ExcludedCategory(name) == \E x \in ExcludedQuotaTypes : ContainsIgnoringCase(x, name)
CountsFor(u, model_name) ==
    /\ ~ExcludedCategory(u.name)
    /\ ContainsIgnoringCase(model_name, u.name)
    /\ ContainsIgnoringCase(Standard, u.name)
AvailableOf(u) == u.limit - u.currentValue

\* C12: when the usage query succeeds, quota is reported as available exactly
\* when some entry that counts for the model (not an excluded category, name
\* contains the model name and a Standard/GlobalStandard tier) has
\* limit - currentValue > 0; when that difference is zero or negative for all
\* of them the result is "No Standard/GlobalStandard quota available".
C12_QuotaIffPositiveAvailability ==
    (call.fn = "_check_model_quota" /\ call.out.kind = "ok" /\ ret.kind = "return") =>
        LET usages == call.out.usages
            some == \E i \in 1..Len(usages) :
                        CountsFor(usages[i], call.model_name) /\ AvailableOf(usages[i]) > 0
        IN  /\ ret.value[1] <=> some
            /\ ~some <=> ret.value[2] = "No Standard/GlobalStandard quota available"

\* entries that count for the model, one with negative and one with zero
\* availability: no quota
C12_Witness ==
    /\ call.fn = "_check_model_quota"
    /\ call.out.kind = "ok"
    /\ ret.kind = "return"
    /\ ret.value[1] = FALSE
    /\ \E i, j \in 1..Len(call.out.usages) :
          /\ CountsFor(call.out.usages[i], call.model_name)
          /\ AvailableOf(call.out.usages[i]) < 0
          /\ CountsFor(call.out.usages[j], call.model_name)
          /\ AvailableOf(call.out.usages[j]) = 0
    /\ call.model_name = Hint


(* ------------------------ definition documents ------------------------- *)
\* parse_agent_yaml was applied to an existing file and has ended
Parsed == call.fn = "parse_agent_yaml" /\ call.exists /\ ret # NoReturn

\* how the file was written
LacksMarkers(f) == f.opening = <<>> \/ f.closing = <<>>
HasHeader(f) == f.opening \in {OpeningMarker, <<"-", "-", "-", " ", "\n">>} /\ f.closing # <<>>
FlatEntries == {NameBot, NameNull, NameEmpty, DescriptionTest, ModelAb}
IsFlatMapping(f) ==
    Len(f.header) > 0 /\ \A i \in 1..Len(f.header) : f.header[i] \in FlatEntries
\* the name the header gives is bot: no later entry replaces it
NamesBot(f) ==
    \E i \in 1..Len(f.header) :
        /\ f.header[i] = NameBot
        /\ \A k \in (i + 1)..Len(f.header) :
              f.header[k] \notin {NameNull, NameEmpty, NameUnclosed}
FormatErrors == {InvalidFormat, InvalidYaml, NotADictionary}

\* C14 (as claimed): a document without the header markers fails with the
\* format error; a header that is a flat mapping without a (non-empty) name
\* fails with the missing-field error; a header that is not a flat mapping
\* fails with the format error.
C14_RejectsAllButFlatNamedMappings ==
    Parsed =>
        /\ LacksMarkers(call.file) => ret.kind = "raise" /\ ret.value \in FormatErrors
        /\ (HasHeader(call.file) /\ IsFlatMapping(call.file) /\ ~NamesBot(call.file)) =>
              ret = Raise(MissingName)
        /\ (HasHeader(call.file) /\ ~IsFlatMapping(call.file)) =>
              ret.kind = "raise" /\ ret.value \in FormatErrors

\* C14 (amended): documents without markers, and headers that are empty, a
\* list, plain text or invalid YAML fail with a format error; flat mappings
\* without a (non-empty) name fail with the missing-field error; nesting is
\* not checked: a mapping with a nested value and the name bot is accepted.
C14_RejectsNonMappings ==
    Parsed =>
        /\ LacksMarkers(call.file) => ret.kind = "raise" /\ ret.value \in FormatErrors
        /\ (HasHeader(call.file) /\ IsFlatMapping(call.file) /\ ~NamesBot(call.file)) =>
              ret = Raise(MissingName)
        /\ (HasHeader(call.file)
              /\ \A i \in 1..Len(call.file.header) :
                    call.file.header[i] \in {ListItem, PlainText}) =>
              ret.kind = "raise" /\ ret.value \in FormatErrors
        /\ (HasHeader(call.file)
              /\ \E i \in 1..Len(call.file.header) : call.file.header[i] = NameUnclosed) =>
              ret = Raise(InvalidYaml)
        /\ (HasHeader(call.file) /\ NamesBot(call.file)
              /\ \A i \in 1..Len(call.file.header) :
                    call.file.header[i] \in FlatEntries \cup {MetaNested}) =>
              ret.kind = "return"

\* a header that is a list is rejected: "Frontmatter must be a YAML dictionary"
C14_Witness ==
    /\ Parsed
    /\ HasHeader(call.file)
    /\ call.file.header = <<ListItem>>
    /\ ret = Raise(NotADictionary)

\* a header with a nested mapping under "meta" and the name bot is accepted
NestedHeaderAccepted ==
    /\ Parsed
    /\ call.file.header = <<NameBot, MetaNested>>
    /\ HasHeader(call.file)
    /\ ret.kind = "return"
    /\ ret.value.name = YamlStr(<<"b", "o", "t">>)

\* instr is text without the whitespace at its two ends
IsTrimOf(instr, text) ==
    /\ \E i \in 0..Len(text) : \E j \in i..Len(text) :
          /\ instr = SubSeq(text, i + 1, j)
          /\ \A k \in 1..i : text[k] \in Whitespace
          /\ \A k \in (j + 1)..Len(text) : text[k] \in Whitespace
    /\ Len(instr) > 0 => instr[1] \notin Whitespace /\ instr[Len(instr)] \notin Whitespace

\* C16: a document whose header is a flat mapping naming bot parses to the
\* name bot, the description of the header or "" without one, the model of
\* the header or None without one, and the body after the closing marker
\* without the whitespace at its ends.
C16_FieldsOfValidDocument ==
    (Parsed /\ HasHeader(call.file) /\ IsFlatMapping(call.file) /\ NamesBot(call.file)) =>
        /\ ret.kind = "return"
        /\ ret.value.name = YamlStr(<<"b", "o", "t">>)
        /\ ret.value.description =
              IF \E i \in 1..Len(call.file.header) : call.file.header[i] = DescriptionTest
              THEN YamlStr(<<"t", "e", "s", "t">>) ELSE YamlStr(<<>>)
        /\ ret.value.model_hint =
              IF \E i \in 1..Len(call.file.header) : call.file.header[i] = ModelAb
              THEN YamlStr(<<"A", "b">>) ELSE YamlNull
        /\ IsTrimOf(ret.value.instructions, call.file.body)

\* the document  ---, name: bot, description: test, ---, Be nice.
C16_Witness ==
    /\ Parsed
    /\ call.file.opening = OpeningMarker
    /\ call.file.header = <<NameBot, DescriptionTest>>
    /\ call.file.closing = ClosingMarker
    /\ call.file.body = BodyNice
    /\ ret = Return([name |-> YamlStr(<<"b", "o", "t">>),
                     description |-> YamlStr(<<"t", "e", "s", "t">>),
                     instructions |-> <<"B", "e", " ", "n", "i", "c", "e", ".">>,
                     model_hint |-> YamlNull])


(* ------------------------------ sidecar -------------------------------- *)
\* C17: parse_agent_file applied to the sidecar file of a successful creation
\* returns the name of the created agent and the endpoint of its project.
C17_SidecarRoundTrip ==
    sidecar.written =>
        ParseAgentFile(SidecarLines(sidecar)) = Return(<<result.name, result.endpoint>>)

\* what parse_agent_file does return: the text after "Agent ID:", and the endpoint
SidecarGivesIdAndEndpoint ==
    sidecar.written =>
        ParseAgentFile(SidecarLines(sidecar))
            = Return(<<IdText(result.agent_id), result.endpoint>>)


(* --------------------------- conversation ------------------------------ *)
\* the line typed last is word, in any case and with blanks around it
TypedWord(word) ==
    /\ typed.kind = "line"
    /\ \E i \in 0..Len(typed.text) : \E j \in i..Len(typed.text) :
          /\ IsTrimOf(SubSeq(typed.text, i + 1, j), typed.text)
          /\ SameIgnoringCase(SubSeq(typed.text, i + 1, j), word)
TypedQuit ==
    TypedWord(<<"e", "x", "i", "t">>) \/ TypedWord(<<"q", "u", "i", "t">>)
TypedBlank == typed.kind = "line" /\ \A k \in 1..Len(typed.text) : typed.text[k] = " "

\* the conversation had started and has ended
ReplEnded == pc \in {"ta_sample", "ta_returned"} /\ InputsRead > 0

\* the last event of the conversation, the printing of the code sample aside
LastReplEvent ==
    IF LastPrompt = "code_sample" THEN io[Len(io) - 1] ELSE LastPrompt

\* C18 (as claimed): the conversation ends only on exit / quit, on end of input
\* or on an interrupt.
C18_EndsOnlyOnQuitEofInterrupt ==
    ReplEnded =>
        \/ LastReplEvent = "input:you" /\ (TypedQuit \/ typed.kind \in {"eof", "interrupt"})
        \/ LastReplEvent = "chat:interrupt"

\* C18 (amended): after an answered message the next line is asked for; an
\* empty line asks again without a chat call; any other line that is not
\* exit / quit is sent; the conversation ends on exit / quit, on end of
\* input, on an interrupt, and also when a chat call fails.
C18_EndsOnQuitEofInterruptOrChatError ==
    /\ ReplEnded =>
          \/ LastReplEvent = "input:you" /\ (TypedQuit \/ typed.kind \in {"eof", "interrupt"})
          \/ LastReplEvent \in {"chat:interrupt", "chat:error"}
    /\ LastPrompt = "chat:ok" => pc = "repl_input"
    /\ (LastPrompt = "input:you" /\ TypedBlank) => pc = "repl_input"
    /\ (LastPrompt = "input:you" /\ typed.kind = "line" /\ ~TypedBlank /\ ~TypedQuit) =>
          pc = "repl_chat"
    /\ \A k \in 1..Len(io) :
          io[k] \in {"chat:ok", "chat:error", "chat:interrupt"} => io[k - 1] = "input:you"

\* an answered message, then an empty line, and the prompt is shown again
C18_Witness ==
    /\ pc = "repl_input"
    /\ Len(io) >= 2
    /\ io[Len(io) - 1] = "chat:ok"
    /\ LastPrompt = "input:you"
    /\ typed = Line(<<>>)

\* a failed chat call ended the conversation
ChatErrorEndsRepl == ReplEnded /\ LastReplEvent = "chat:error"


(* ------------------------- failing listings ---------------------------- *)
\* one of the three listings ended after the CLI exited non-zero
ListingFailed ==
    /\ call.fn \in {"list_resources", "list_projects", "list_deployments"}
    /\ call.out.rc # 0
    /\ ret # NoReturn

\* C19 (as claimed): a listing whose CLI call exits non-zero returns an empty
\* list instead of raising.
C19_FailedListingsReturnEmpty == ListingFailed => ret = Return(<<>>)

\* C19 (amended): list_deployments returns an empty list when its CLI call
\* exits non-zero; list_resources and list_projects raise RuntimeError.
C19_OnlyDeploymentListingIsTolerant ==
    ListingFailed =>
        IF call.fn = "list_deployments" THEN ret = Return(<<>>)
        ELSE ret.kind = "raise" /\ ret.value = "az command failed"

\* the deployment listing failed and gave the empty list
C19_Witness ==
    /\ call.fn = "list_deployments"
    /\ call.out.rc # 0
    /\ ret = Return(<<>>)

\* the project listing failed and raised
FailedProjectListingRaises ==
    /\ call.fn = "list_projects"
    /\ call.out.rc # 0
    /\ ret.kind = "raise"


C21_NameNeverEmpty ==
    /\ config.ok => config.name # <<>>
    /\ \A i \in 1..Len(createLog) : createLog[i].name # <<>>
    /\ pc = "ba_create" => current_name # <<>>
    /\ (Len(io) > 0 /\ io[Len(io)] = "input:name" /\ new_name = <<>> /\ pc # "ba_name_prompt")
          => pc \in {"ba_raised", "exit"} /\ raised # "none"

\* a retry was made with a replacement name, and an empty replacement name
\* was then answered to the second collision
C21_Witness ==
    /\ Len(createLog) = 2
    /\ createLog[1].outcome = "exists"
    /\ createLog[2].outcome = "exists"
    /\ createLog[2].name = <<"x">>
    /\ io[Len(io)] = "input:name"
    /\ new_name = <<>>
    /\ raised = "RuntimeError"

\* C22: when select_deployment returns, the deployment it returns is an
\* element of the listing obtained last from the selected project (the first
\* listing, or the one queried again after a successful provisioning), and
\* the model given to create_agent is the deployment_name of that deployment.
C22_ReturnedDeploymentIsListed ==
    /\ pc = "sd_return" =>
          /\ \E i \in 1..Len(deployments) : deployments[i] = deployment
          /\ io[1] = "list_deployments"
    /\ pc \in {"create_agent", "ba_create", "ba_name_prompt", "ba_verify", "ba_returned"}
          => deployment # NoDeployment
    /\ result # NoResult =>
          /\ deployment # NoDeployment
          /\ result.model = deployment.deployment_name

\* the deployment returned is the second one of a listing queried again
\* after the provisioning script succeeded
C22_Witness ==
    /\ pc = "sd_return"
    /\ \E k \in 1..Len(io) : io[k] = "script:ok" /\ io[Len(io)] = "list_deployments"
    /\ Len(deployments) = 2
    /\ deployment = deployments[2]
    /\ deployment # deployments[1]

\* an agent was created on a deployment whose name differs from its model
C22_WitnessCreated ==
    /\ result # NoResult
    /\ result.model = deployment.deployment_name
    /\ deployment.deployment_name # deployment.model_name

\* C23: after a name collision, every later create call and the read-back
\* use a client handle constructed after that collision; the handle that
\* saw a collision is not used again by that create_agent call.
C23_FreshClientAfterCollision ==
    /\ \A i \in 1..Len(createLog) :
          createLog[i].outcome = "exists" =>
             /\ \A j \in (i + 1)..Len(createLog) : createLog[j].client > createLog[i].client
             /\ \A j \in 1..Len(getLog) : getLog[j].client > createLog[i].client
             /\ pc \in {"ba_create", "ba_verify"} => client > createLog[i].client
    /\ \A i \in 1..Len(createLog) : createLog[i].client \in 1..clientCount
    /\ \A j \in 1..Len(getLog) : getLog[j].client \in 1..clientCount

\* two collisions, then a create call and a read-back, on three handles
C23_Witness ==
    /\ Len(createLog) = 3
    /\ createLog[1].outcome = "exists"
    /\ createLog[2].outcome = "exists"
    /\ createLog[3].outcome = "ok"
    /\ Len(getLog) = 1
    /\ getLog[1].client = 3
    /\ createLog[1].client = 1

(* ======================= the name-collision loop ====================== *)
\* the create calls made so far all collided
AllCollided == \A i \in 1..Len(createLog) : createLog[i].outcome = "exists"
\* prompts for another name shown so far by create_agent
NamePromptsShown == Cardinality({k \in 1..Len(io) : io[k] = "input:name"})
\* the name entered last asks to cancel: 'q' in any case, or nothing
EnteredCancel == new_name = <<>> \/ SameIgnoringCase(new_name, <<"q">>)

\* C24: the name-collision loop of create_agent ends only by a create call
\* that succeeds, by an error other than a name collision (of the create
\* call, or input() raising), or by the user entering 'q' or an empty name,
\* after which an error is raised and no create call follows; while every
\* name entered collides another create call is made, however many were made.
C24_LoopEndsOnlyBySuccessErrorOrCancel ==
    LET n == Len(createLog)
    IN  /\ \A i \in 1..(n - 1) : createLog[i].outcome = "exists"
        /\ (n > 0 /\ pc \notin {"ba_create", "ba_name_prompt"}) =>
              \/ createLog[n].outcome = "ok"
              \/ createLog[n].outcome = "error" /\ raised = "Exception"
              \/ /\ createLog[n].outcome = "exists"
                 /\ NamePromptsShown = n
                 /\ pc \in {"ba_raised", "exit"}
                 /\ \/ raised = "RuntimeError" /\ EnteredCancel
                    \/ raised \in {"EOFError", "KeyboardInterrupt"}
        /\ (n > 0 /\ AllCollided /\ NamePromptsShown = n /\ ~EnteredCancel /\ raised = "none")
              => pc = "ba_create" /\ current_name = new_name

\* the second name entered collided as well and a third create call is due
C24_Witness ==
    /\ Len(createLog) = MaxCollisions
    /\ AllCollided
    /\ NamePromptsShown = MaxCollisions
    /\ pc = "ba_create"
    /\ current_name = <<"x">>

\* the loop ended by a cancellation after a collision
C24_WitnessCancel ==
    /\ Len(createLog) = 2
    /\ AllCollided
    /\ new_name = <<"Q">>
    /\ raised = "RuntimeError"
    /\ pc = "exit"
    /\ status = 1

(* ===================== order of the steps of a run ==================== *)
\* the create call returned and its read-back returned an object with an id
VerifiedCreation ==
    /\ Len(createLog) > 0
    /\ createLog[Len(createLog)].outcome = "ok"
    /\ ReadBackOk
\* the test message was sent
TestMessageSent == io = <<"chat">>

\* C25: a create call is issued only after a project and a deployment were
\* resolved and the confirmation was not answered 'n'; the sidecar is written
\* only after the create call and its read-back both succeeded; the test
\* message is sent only with --test and only after the sidecar was written;
\* a run that fails or is cancelled before verified creation leaves the
\* sidecar as it was.
C25_StepsAreOrdered ==
    /\ (pc \in {"create_agent", "ba_create", "ba_name_prompt", "ba_verify"}
            \/ Len(createLog) > 0) =>
          /\ project # NoProject
          /\ deployment # NoDeployment
          /\ exitAt # "cancelled"
    /\ pc = "create_agent" => response # <<"n">>
    /\ (pc = "exit" /\ exitAt = "cancelled") => response = <<"n">> /\ createLog = <<>>
    /\ pc = "ba_returned" => VerifiedCreation
    /\ sidecar # NoSidecar =>
          /\ sidecar.written
          /\ VerifiedCreation
          /\ result # NoResult
          /\ sidecar.agent_id = result.agent_id
          /\ sidecar.agent_created = config.name
    /\ (pc = "test" \/ TestMessageSent) => test /\ sidecar.written
    /\ testResponse # <<>> => TestMessageSent \/ pc = "exit"
    /\ ~VerifiedCreation => sidecar = NoSidecar

\* the test message was sent after the sidecar was written
C25_Witness ==
    /\ TestMessageSent
    /\ test
    /\ sidecar.written
    /\ VerifiedCreation
    /\ Len(createLog) = 2

\* a run cancelled at the confirmation, and one that failed in the read-back
C25_WitnessFailed ==
    /\ pc = "exit"
    /\ Len(getLog) = 1
    /\ ~ReadBackOk
    /\ sidecar = NoSidecar

(* ================== the declined closest deployment =================== *)
\* "Use '<deployment>'? (Y/n)" was answered 'n' for partial_matches[1]
DeclinedClosest ==
    /\ branch = "single"
    /\ Len(partial_matches) = 1
    /\ \E k \in 1..(Len(io) - 1) : io[k] = "input:use"
\* the deployment returned was picked by its number at "Select deployment"
PickedByNumber ==
    /\ LastPrompt = "input:deployment"
    /\ \E k \in 1..Len(deployments) : TypedIs(k) /\ deployments[k] = deployment

\* C26: a deployment declined at "Use '<deployment>'?" is returned by
\* select_deployment only if the user afterwards picks it by its number; it
\* is not selected on its own when it is the only deployment of the listing.
C26_DeclinedReturnedOnlyIfPicked ==
    (pc = "sd_return" /\ DeclinedClosest /\ deployment = partial_matches[1])
        => PickedByNumber

\* the declined deployment, alone in the listing, is returned with no
\* further question asked
DeclinedDeploymentAutoSelected ==
    /\ pc = "sd_return"
    /\ DeclinedClosest
    /\ deployments = partial_matches
    /\ deployment = partial_matches[1]
    /\ LastPrompt # "input:deployment"
    /\ typed = NoInput

(* ============== the search after provisioning, no match =============== *)
\* select_deployment returned from the search that follows a successful
\* provisioning in the branch where nothing matched the hint
ReturnedAfterProvisioningNoMatch ==
    /\ pc = "sd_return"
    /\ branch = "none"
    /\ Len(io) >= 2
    /\ io[Len(io)] = "list_deployments"
    /\ io[Len(io) - 1] = "script:ok"

\* C27: after a successful provisioning in the branch where no deployment
\* matched the hint, if the listing queried again holds a deployment whose
\* deployment name or model name equals the hint (ignoring case), the
\* deployment returned is one that equals the hint, not one that only
\* contains it, whatever the order of the listing.
C27_ExactPreferredAfterProvisioning ==
    (ReturnedAfterProvisioningNoMatch /\ \E i \in 1..Len(deployments) : HintEquals(deployments[i]))
        => HintEquals(deployment)

\* a deployment that only contains the hint is returned although a later
\* one of the listing equals it
SubstringMatchReturnedBeforeExact ==
    /\ ReturnedAfterProvisioningNoMatch
    /\ Len(deployments) = 2
    /\ deployment = deployments[1]
    /\ ~HintEquals(deployments[1])
    /\ HintWithin(deployments[1])
    /\ HintEquals(deployments[2])

(* ========================= the CreatedAgent =========================== *)
\* C28: a CreatedAgent returned by create_agent has a non-empty agent_id,
\* the requested model and the builder's endpoint; the agent_id is present
\* even when the create response and the read-back differ.
C28_CreatedAgentHasId ==
    result # NoResult =>
        /\ result.agent_id \notin {NoId, ""}
        /\ result.model = deployment.deployment_name
        /\ result.endpoint = RStripSlash(EndpointOf(project))

\* the read-back returned an id, the create response had none, and the
\* CreatedAgent carries no id
AgentIdAbsentAfterVerification ==
    /\ result # NoResult
    /\ ReadBackOk
    /\ getLog[1].outcome.id = "agent-1"
    /\ ~agent.hasId
    /\ result.agent_id = NoId
    /\ result.model = deployment.deployment_name
    /\ result.endpoint = RStripSlash(EndpointOf(project))

(* ========================= the device-code login ====================== *)
\* C29: while the login state has not changed outside the process, the
\* device-code login is never started: a run that is not logged in ends
\* with status 1 at the prerequisites check, before the prompt "Login now
\* using device code?", and a run that is logged in does not show the prompt.
C29_NoDeviceLoginWithoutChange ==
    loginChanges = 0 =>
        /\ pc \notin {"login_prompt", "login_device_code"}
        /\ exitAt \notin {"login_declined", "login_failed"}
        /\ \A k \in 1..Len(io) : io[k] \notin {"input:login", "login"}
        /\ ~loggedIn =>
              \/ pc \in {"main", "check_cli"}
              \/ /\ pc = "exit"
                 /\ status = 1
                 /\ exitAt \in {"file_missing", "cli_missing", "not_logged_in"}

\* a run that is not logged in ended at the prerequisites check
C29_Witness ==
    /\ loginChanges = 0
    /\ ~loggedIn
    /\ pc = "exit"
    /\ status = 1
    /\ exitAt = "not_logged_in"

\* a run that is logged in went past the login check without a prompt
C29_WitnessLoggedIn ==
    /\ loginChanges = 0
    /\ loggedIn
    /\ pc = "get_subscription"

\* the prompt is reached when the login is lost after the prerequisites check
LoginPromptAfterChange ==
    /\ loginChanges = 1
    /\ pc = "login_device_code"

(* ===================== the test message of --test ===================== *)
\* the test chat call failed: test_agent answered with its error text
TestChatFailed == TestMessageSent /\ Len(testResponse) > 0 /\ testResponse[1] = "Error: "
\* the sidecar holds what was written after the verified creation
SidecarAsWritten ==
    /\ sidecar.written
    /\ sidecar.agent_created = config.name
    /\ sidecar.agent_id = result.agent_id
    /\ sidecar.endpoint = result.endpoint
    /\ sidecar.model = result.model
    /\ sidecar.sample_name = result.name

\* C30: with --test, once the agent is created and verified and the sidecar
\* is written, the process ends with status 0 and the sidecar stays as it was
\* written, whether the test chat call succeeds or fails.
C30_TestFailureDoesNotFailRun ==
    /\ sidecar.written =>
          /\ SidecarAsWritten
          /\ pc \in {"test", "done", "exit"}
          /\ pc = "exit" => status = 0 /\ exitAt = "done"
          /\ test => (pc = "test" \/ TestMessageSent)
    /\ TestMessageSent =>
          /\ VerifiedCreation
          /\ SidecarAsWritten
          /\ pc \in {"done", "exit"}
          /\ Len(testResponse) > 0

\* the test chat call failed and the process ended with status 0
C30_Witness ==
    /\ test
    /\ TestChatFailed
    /\ SidecarAsWritten
    /\ pc = "exit"
    /\ status = 0

\* the test chat call succeeded and the process ended with status 0
C30_WitnessSucceeded ==
    /\ test
    /\ TestMessageSent
    /\ testResponse = <<"response.output_text">>
    /\ pc = "exit"
    /\ status = 0

====
